---- MODULE Spec2Model ----
(***************************************************************************)
(* XStream Creative Suite: the generation-workflow orchestration layer.    *)
(*                                                                         *)
(* The application is a React front end.  Each component's useState cells  *)
(* are one record-valued variable named after the component.  An event     *)
(* handler runs to its first await as one step; every later segment of an  *)
(* async handler (from one await to the next) is one step taken when the   *)
(* awaited promise settles.  The suspended handlers are the bag `pending`: *)
(* each element holds the handler's name, the await it is suspended at and *)
(* the values its closure captured at the render it was called from.       *)
(* A user action is enabled exactly when the control that triggers it is   *)
(* rendered and not disabled.  Only the tool selected by the router is     *)
(* mounted; unmounting a component discards its state, so an unmounted     *)
(* component's record holds its initial value.                             *)
(***************************************************************************)
EXTENDS Integers, Sequences, FiniteSets, Bags, TLC

VARIABLES
    currentTool,          \* App: the routed tool
    libraryCreations,     \* App: the session library, most recent first
    FaceSwap,             \* FaceSwap component state
    FaceSwapInput,        \* FaceSwapInput component state
    BackgroundRemover,    \* BackgroundRemover component state
    BackgroundRemoverInput, \* BackgroundRemoverInput component state
    CreativeAssistant,    \* CreativeAssistant component state
    TopicInput,           \* TopicInput component state
    CharacterAnimator,    \* CharacterAnimator component state
    CharacterAnimatorInput, \* CharacterAnimatorInput component state
    pending,              \* bag of suspended async handlers
    sessionStart,         \* history variable: Len(libraryCreations) when the
                          \* current workflow session began
    opened,               \* history variable: how many tools were opened so far
    geminiService,        \* services/geminiService: which client construction
                          \* is built, and whether process.env.API_KEY is set
    imageForTool,         \* App: the library image handed to a tool, if any
    initialImageFile      \* FaceSwap / BackgroundRemover: the handed image once
                          \* loaded, per receiving tool

appVars == <<currentTool, libraryCreations, sessionStart, opened, geminiService,
            imageForTool, initialImageFile>>
fsVars == <<FaceSwap, FaceSwapInput>>
brVars == <<BackgroundRemover, BackgroundRemoverInput>>
caVars == <<CreativeAssistant, TopicInput>>
anVars == <<CharacterAnimator, CharacterAnimatorInput>>
vars == <<appVars, fsVars, brVars, caVars, anVars, pending>>

(***************************************************************************)
(* Bounds of the model.                                                    *)
(***************************************************************************)
MaxHistory == 3
MaxCompositeHistory == 2
MaxLibrary == 2
MaxPending == 2
MaxOpened == 1
MaxSwitches == 2
MaxPendingAssistant == 1
MaxChunks == 2
MaxPolls == 2
MaxReads == 2
MaxAssets == 2

(***************************************************************************)
(* Values.                                                                 *)
(***************************************************************************)
\* A File picked by the user is a MIME type and its bytes.  The pictures on
\* the user's disk, by the upload slot the user drops them in.
SourceFiles == {[type |-> "image/jpeg", bytes |-> 1]}
FaceFiles == {[type |-> "image/webp", bytes |-> 2]}
BackgroundFiles == {[type |-> "image/gif", bytes |-> 3]}
NoFile == [type |-> "", bytes |-> 0]
\* The images the user can pick as assets, and a null ImageFile.
AssetFiles == {[type |-> "image/png", bytes |-> 4], [type |-> "image/png", bytes |-> 5]}
NoImage == [data |-> 0, type |-> ""]

\* A data URL "data:<mime>;base64,<data>" is the pair <<mime, data>>; null is <<>>.
NoUrl == <<>>
\* The image artifacts the backend (or the filter editor's canvas) can return.
Artifacts == {<<"image/png", 11>>, <<"image/png", 12>>}
Cutouts == {<<"image/png", 10>>}

\* e.message of a rejected call: a configuration error, a backend message or
\* an empty message (the handlers substitute their default for it).
ConfigurationError == "Configuration Error: API_KEY is not available. Please set the API_KEY environment variable."
Failures == {ConfigurationError, ""}

\* The builds of services/geminiService. The lazy client is constructed by
\* getAi at the first call, which throws when process.env.API_KEY is not set;
\* the eager client is constructed at module scope with whatever the
\* environment holds. With a key set the two do not differ, so one configured
\* build stands for both.
GeminiServices ==
    {[client |-> "lazy", apiKey |-> TRUE], [client |-> "lazy", apiKey |-> FALSE],
     [client |-> "eager", apiKey |-> FALSE]}
\* getAi(): whether the call obtains a client, so that its request is sent.
getAi(service) == service.apiKey \/ service.client = "eager"
\* The messages a call of the service can reject with: the configuration
\* error of getAi thrown before the request, or what the backend reports; a
\* request sent without a key is rejected by the backend.
Rejections(service, failures, thrown) ==
    IF getAi(service) THEN IF service.apiKey THEN failures ELSE failures \ {thrown}
    ELSE {thrown}

\* The parts of a request: a text part, or an image part with its base64
\* payload and declared MIME type.
TextPart(text) == [text |-> text]
imageToPart(image) == [inlineData |-> [data |-> image.data, mimeType |-> image.type]]
ImageParts(images) == [i \in 1 .. Len(images) |-> imageToPart(images[i])]

\* contents.parts of the request each service function builds.  The texts
\* that interpolate the topic and the controls are named by their first words.
generateDetailedPromptFromText_partsMutNoAssets(assets) ==
    <<TextPart(IF Len(assets) > 0
               THEN "Based on the following inputs ... Incorporate inspiration from the following asset images:"
               ELSE "Based on the following inputs ...")>>
generateDetailedPromptFromText_parts(assets) ==
    <<TextPart(IF Len(assets) > 0
               THEN "Based on the following inputs ... Incorporate inspiration from the following asset images:"
               ELSE "Based on the following inputs ...")>>
    \o ImageParts(assets)
generateDetailedPromptFromImage_parts(sourceImage, assets) ==
    <<TextPart(IF Len(assets) > 0
               THEN "Based on the following source image ... Also take inspiration from these asset images:"
               ELSE "Based on the following source image ...")>>
    \o <<TextPart("Source Image:"), imageToPart(sourceImage)>>
    \o ImageParts(assets)
generateImage_parts(prompt, sourceImage, assets) ==
    <<TextPart(prompt)>>
    \o ImageParts(IF sourceImage # NoImage THEN <<sourceImage>> \o assets ELSE assets)
generateTextStream_parts(sourceImage, assets) ==
    <<TextPart("In a conversational and helpful tone, tell me more about this topic ...")>>
    \o (IF sourceImage # NoImage THEN <<imageToPart(sourceImage)>> ELSE <<>>)
    \o ImageParts(assets)
generateLyricsStream_parts == <<TextPart("Write song lyrics about ...")>>
performFaceSwap_parts(sourceImage, faceImage) ==
    <<imageToPart(sourceImage), imageToPart(faceImage),
      TextPart("Swap the face from the second image onto the person in the first image. Keep the original background and clothing.")>>
performBackgroundRemoval_parts(image) ==
    <<imageToPart(image),
      TextPart("Isolate the main subject of this image and remove the background ...")>>
compositeWithGeneratedBackground_parts(foreground, prompt) ==
    <<imageToPart(foreground), TextPart("First, generate a new background image based on this prompt ...")>>
compositeWithUploadedBackground_parts(foreground, background) ==
    <<imageToPart(foreground), imageToPart(background),
      TextPart("Composite the main subject from the first image onto the background from the second image ...")>>

fileToImageFile(file) == [data |-> file.bytes, type |-> file.type]
DataUrl(image) == <<image.type, image.data>>

OrDefault(message, default) == IF message = "" THEN default ELSE message

\* String.prototype.trim
RECURSIVE Trim(_)
Trim(text) ==
    IF Len(text) > 0 /\ SubSeq(text, 1, 1) = " "
    THEN Trim(SubSeq(text, 2, Len(text)))
    ELSE IF Len(text) > 0 /\ SubSeq(text, Len(text), Len(text)) = " "
    THEN Trim(SubSeq(text, 1, Len(text) - 1))
    ELSE text

(***************************************************************************)
(* The bag of suspended handlers.                                          *)
(***************************************************************************)
Suspend(op) == pending (+) SetToBag({op})
Resume(op) == pending (-) SetToBag({op})
Replace(op, next) == (pending (-) SetToBag({op})) (+) SetToBag({next})
CanSuspend == BagCardinality(pending) < MaxPending
Suspended == BagToSet(pending)

\* History field of a suspended handler: stale is set once the session that
\* started it was ended by Start Over.  The handler itself cannot read it.
Fresh(op) == [op EXCEPT !.stale = FALSE]
Stale(op) == [op EXCEPT !.stale = TRUE]
Abandon(bag) ==
    [op \in {Stale(o) : o \in BagToSet(bag)} |-> CopiesIn(op, bag) + CopiesIn(Fresh(op), bag)]

(***************************************************************************)
(* App                                                                     *)
(***************************************************************************)
handleCreationCompleteMutTail(item) == libraryCreations \o <<item>>
handleCreationCompleteMutDrop(item) == libraryCreations
handleCreationComplete(item) == <<item>> \o libraryCreations
LibraryHasRoom == Len(libraryCreations) < MaxLibrary

\* The tools the library's "use in" menu hands an image to.
HandoffTools == {"face-swap", "background-remover"}
\* imageForTool is null, or the url of a library image and its target tool.
NoImageForTool == [url |-> NoUrl, targetTool |-> "null"]
handleUseImageInTool(imageUrl, targetTool) == [url |-> imageUrl, targetTool |-> targetTool]
\* renderTool: the initialImage prop of the tool it renders.
renderTool_initialImageMutAnyTool(handoff, tool) == handoff.url
renderTool_initialImage(handoff, tool) ==
    IF handoff # NoImageForTool /\ handoff.targetTool = tool THEN handoff.url ELSE NoUrl
\* ImageDropzone.urlToImageFile: the url is fetched and its blob wrapped in a
\* File of the blob's type.
urlToImageFile(url) == [type |-> url[1], bytes |-> url[2]]
\* The effect a receiving tool runs on its initialImage prop when it mounts:
\* with an image it starts loading it, without one it does nothing.
useEffect_initialImage(handoff, tool) ==
    IF renderTool_initialImage(handoff, tool) # NoUrl
    THEN Suspend([h |-> "useEffect(initialImage)", pc |-> "urlToImageFile",
                  stale |-> FALSE, mounted |-> TRUE, tool |-> tool,
                  url |-> renderTool_initialImage(handoff, tool)])
    ELSE pending
\* The loads an unmounting tool leaves behind: they still reach
\* onClearInitialImage, which is the App's.
Detached(bag) ==
    LET kept == {op \in BagToSet(bag) : op.h = "useEffect(initialImage)"}
        gone(o) == [o EXCEPT !.mounted = FALSE]
    IN [op \in {gone(o) : o \in kept} |->
           BagCardinality([o \in {k \in kept : gone(k) = op} |-> bag[o]])]

(***************************************************************************)
(* FaceSwap                                                                *)
(***************************************************************************)
FaceSwapInit ==
    [isLoading |-> FALSE, error |-> "null", editHistory |-> <<>>,
     editHistoryIndex |-> -1, originalImage |-> NoUrl, isSaved |-> FALSE,
     isEditing |-> FALSE]
FaceSwapInputInit == [sourceImage |-> NoFile, faceImage |-> NoFile]

FaceSwap_result(s) ==
    IF Len(s.editHistory) > 0 THEN s.editHistory[s.editHistoryIndex + 1] ELSE NoUrl
FaceSwap_canUndoMutZero(s) == s.editHistoryIndex >= 0
FaceSwap_canUndo(s) == s.editHistoryIndex > 0
FaceSwap_canRedo(s) == s.editHistoryIndex < Len(s.editHistory) - 1

\* renderContent: which of its four branches is on screen.
FaceSwap_renderContent(s) ==
    IF s.isLoading THEN "loading"
    ELSE IF s.error # "null" THEN "error"
    ELSE IF FaceSwap_result(s) # NoUrl /\ s.originalImage # NoUrl THEN "result"
    ELSE "input"

\* The pair handed to BeforeAfterSlider by the result view.
FaceSwap_BeforeAfterSlider(s) ==
    [beforeImage |-> s.originalImage, afterImage |-> FaceSwap_result(s)]

FaceSwap_mounted == currentTool = "face-swap"
FaceSwap_shows(view) == FaceSwap_mounted /\ FaceSwap_renderContent(FaceSwap) = view

\* FaceSwapInput lives only while the input branch is rendered.
\* When it mounts, its effect on initialImage applies the image handed over.
FaceSwapInput_mount(initialImage) == [FaceSwapInputInit EXCEPT !.sourceImage = initialImage]
FaceSwapInput_keep(value) ==
    FaceSwapInput' = IF FaceSwap_renderContent(FaceSwap') # "input" THEN FaceSwapInputInit
                     ELSE IF FaceSwap_renderContent(FaceSwap) = "input" THEN value
                     ELSE FaceSwapInput_mount(initialImageFile["face-swap"])

FaceSwap_frame == UNCHANGED <<appVars, brVars, caVars, anVars>>

FaceSwapInput_handleSourceImageChange ==
    /\ FaceSwap_shows("input")
    /\ \E file \in SourceFiles :
          FaceSwapInput' = [FaceSwapInput EXCEPT !.sourceImage = file]
    /\ UNCHANGED <<FaceSwap, pending>>
    /\ FaceSwap_frame

FaceSwapInput_handleFaceImageChange ==
    /\ FaceSwap_shows("input")
    /\ \E file \in FaceFiles :
          FaceSwapInput' = [FaceSwapInput EXCEPT !.faceImage = file]
    /\ UNCHANGED <<FaceSwap, pending>>
    /\ FaceSwap_frame

FaceSwapInput_removeSourceImage ==
    /\ FaceSwap_shows("input")
    /\ FaceSwapInput.sourceImage # NoFile
    /\ FaceSwapInput' = [FaceSwapInput EXCEPT !.sourceImage = NoFile]
    /\ UNCHANGED <<FaceSwap, pending>>
    /\ FaceSwap_frame

FaceSwapInput_removeFaceImage ==
    /\ FaceSwap_shows("input")
    /\ FaceSwapInput.faceImage # NoFile
    /\ FaceSwapInput' = [FaceSwapInput EXCEPT !.faceImage = NoFile]
    /\ UNCHANGED <<FaceSwap, pending>>
    /\ FaceSwap_frame

\* handleSubmit up to its first await.  The submit button is disabled while
\* isLoading or an image is missing; the handler tests the same condition.
FaceSwapInput_submitGuard ==
    /\ FaceSwapInput.sourceImage # NoFile
    /\ FaceSwapInput.faceImage # NoFile
    /\ ~FaceSwap.isLoading
FaceSwapInput_handleSubmit ==
    /\ FaceSwap_shows("input")
    /\ FaceSwapInput_submitGuard
    /\ CanSuspend
    /\ pending' = Suspend([h |-> "FaceSwapInput.handleSubmit", pc |-> "fileToImageFile(sourceImage)", stale |-> FALSE,
                           sourceImage |-> FaceSwapInput.sourceImage,
                           faceImage |-> FaceSwapInput.faceImage])
    /\ UNCHANGED <<FaceSwap, FaceSwapInput>>
    /\ FaceSwap_frame

\* The first file read resolves; the handler awaits the second.
FaceSwapInput_sourceRead ==
    /\ \E op \in Suspended :
          /\ op.h = "FaceSwapInput.handleSubmit"
          /\ op.pc = "fileToImageFile(sourceImage)"
          /\ pending' = Replace(op, [op EXCEPT !.pc = "fileToImageFile(faceImage)"])
    /\ UNCHANGED <<FaceSwap, FaceSwapInput>>
    /\ FaceSwap_frame

\* A file read rejects: handleSubmit has no catch, the handler just ends.
FaceSwapInput_readFailed ==
    /\ \E op \in Suspended :
          /\ op.h = "FaceSwapInput.handleSubmit"
          /\ pending' = Resume(op)
    /\ UNCHANGED <<FaceSwap, FaceSwapInput>>
    /\ FaceSwap_frame

FaceSwap_handleFaceSwapGenerateMutFaceAsOriginal(s, sourceImage, faceImage) ==
    [s EXCEPT !.isLoading = TRUE, !.error = "null", !.editHistory = <<>>,
              !.editHistoryIndex = -1, !.isSaved = FALSE,
              !.originalImage = DataUrl(faceImage)]

\* handleFaceSwapGenerate up to its await of performFaceSwap.
FaceSwap_handleFaceSwapGenerate(s, sourceImage, faceImage) ==
    [s EXCEPT !.isLoading = TRUE, !.error = "null", !.editHistory = <<>>,
              !.editHistoryIndex = -1, !.isSaved = FALSE,
              !.originalImage = DataUrl(sourceImage)]

\* The second file read resolves and handleSubmit calls onGenerate.
FaceSwapInput_onGenerate ==
    /\ \E op \in Suspended :
          /\ op.h = "FaceSwapInput.handleSubmit"
          /\ op.pc = "fileToImageFile(faceImage)"
          /\ FaceSwap' = FaceSwap_handleFaceSwapGenerate(FaceSwap,
                             fileToImageFile(op.sourceImage), fileToImageFile(op.faceImage))
          /\ pending' = Replace(op, [h |-> "FaceSwap.handleFaceSwapGenerate", pc |-> "performFaceSwap",
                                     stale |-> op.stale,
                                     sourceImage |-> fileToImageFile(op.sourceImage),
                                     faceImage |-> fileToImageFile(op.faceImage),
                                     request |-> performFaceSwap_parts(
                                         fileToImageFile(op.sourceImage),
                                         fileToImageFile(op.faceImage))])
    /\ FaceSwapInput_keep(FaceSwapInput)
    /\ FaceSwap_frame

FaceSwap_generated(s, imageUrl) ==
    [s EXCEPT !.editHistory = <<imageUrl>>, !.editHistoryIndex = 0, !.isLoading = FALSE]
FaceSwap_performFaceSwapResolved ==
    /\ geminiService.apiKey
    /\ \E op \in Suspended, imageUrl \in Artifacts :
          /\ op.h = "FaceSwap.handleFaceSwapGenerate"
          /\ FaceSwap' = FaceSwap_generated(FaceSwap, imageUrl)
          /\ pending' = Resume(op)
    /\ FaceSwapInput_keep(FaceSwapInput)
    /\ FaceSwap_frame

FaceSwap_performFaceSwapRejectedMutRetry ==
    /\ \E op \in Suspended, message \in Rejections(geminiService, Failures, ConfigurationError) :
          /\ op.h = "FaceSwap.handleFaceSwapGenerate"
          /\ FaceSwap' = [FaceSwap EXCEPT
                             !.error = OrDefault(message, "An unknown error occurred.")]
          /\ pending' = pending
    /\ FaceSwapInput_keep(FaceSwapInput)
    /\ FaceSwap_frame
FaceSwap_performFaceSwapRejected ==
    /\ \E op \in Suspended, message \in Rejections(geminiService, Failures, ConfigurationError) :
          /\ op.h = "FaceSwap.handleFaceSwapGenerate"
          /\ FaceSwap' = [FaceSwap EXCEPT
                             !.error = OrDefault(message, "An unknown error occurred."),
                             !.isLoading = FALSE]
          /\ pending' = Resume(op)
    /\ FaceSwapInput_keep(FaceSwapInput)
    /\ FaceSwap_frame

\* handleSave; its button is rendered in the result branch, disabled once isSaved.
FaceSwap_handleSave ==
    /\ FaceSwap_shows("result")
    /\ ~FaceSwap.isSaved
    /\ LibraryHasRoom
    /\ IF FaceSwap_result(FaceSwap) # NoUrl /\ FaceSwap.originalImage # NoUrl /\ ~FaceSwap.isSaved
       THEN /\ libraryCreations' = handleCreationComplete(
                   [type |-> "Face Swap", originalUrl |-> FaceSwap.originalImage,
                    imageUrl |-> FaceSwap_result(FaceSwap), videoUrl |-> NoUrl])
            /\ FaceSwap' = [FaceSwap EXCEPT !.isSaved = TRUE]
       ELSE UNCHANGED <<libraryCreations, FaceSwap>>
    /\ UNCHANGED <<geminiService, imageForTool, initialImageFile, currentTool, sessionStart, opened, FaceSwapInput, pending, brVars, caVars, anVars>>

FaceSwap_openEditor ==
    /\ FaceSwap_shows("result")
    /\ ~FaceSwap.isEditing
    /\ FaceSwap' = [FaceSwap EXCEPT !.isEditing = TRUE]
    /\ UNCHANGED <<FaceSwapInput, pending>>
    /\ FaceSwap_frame

FaceSwap_closeEditor ==
    /\ FaceSwap_shows("result")
    /\ FaceSwap.isEditing
    /\ FaceSwap' = [FaceSwap EXCEPT !.isEditing = FALSE]
    /\ UNCHANGED <<FaceSwapInput, pending>>
    /\ FaceSwap_frame

\* handleEditComplete(newImageUrl)
FaceSwap_handleEditCompleteMutNoTruncate(s, newImageUrl) ==
    [s EXCEPT !.editHistory = Append(s.editHistory, newImageUrl),
              !.editHistoryIndex = Len(s.editHistory),
              !.isEditing = FALSE, !.isSaved = FALSE]
FaceSwap_handleEditComplete(s, newImageUrl) ==
    LET newHistory == Append(SubSeq(s.editHistory, 1, s.editHistoryIndex + 1), newImageUrl)
    IN [s EXCEPT !.editHistory = newHistory,
                 !.editHistoryIndex = Len(newHistory) - 1,
                 !.isEditing = FALSE, !.isSaved = FALSE]

\* ImageEditor "Apply & Save": onSave(dataUrl) then onClose().
FaceSwap_editorSave ==
    /\ FaceSwap_shows("result")
    /\ FaceSwap.isEditing
    /\ FaceSwap.editHistoryIndex + 2 <= MaxHistory
    /\ \E dataUrl \in Artifacts :
          FaceSwap' = FaceSwap_handleEditComplete(FaceSwap, dataUrl)
    /\ UNCHANGED <<FaceSwapInput, pending>>
    /\ FaceSwap_frame

\* handleUndo and handleRedo as functions of the component's state.
FaceSwap_undoMutTruncates(s) ==
    IF FaceSwap_canUndo(s)
    THEN [s EXCEPT !.editHistory = SubSeq(@, 1, s.editHistoryIndex),
                   !.editHistoryIndex = @ - 1]
    ELSE s
FaceSwap_undo(s) ==
    IF FaceSwap_canUndo(s) THEN [s EXCEPT !.editHistoryIndex = @ - 1] ELSE s
FaceSwap_redoMutNoGuard(s) == [s EXCEPT !.editHistoryIndex = @ + 1]
FaceSwap_redo(s) ==
    IF FaceSwap_canRedo(s) THEN [s EXCEPT !.editHistoryIndex = @ + 1] ELSE s

\* The undo and redo buttons of the result branch, disabled without
\* canUndo / canRedo.
FaceSwap_handleUndo ==
    /\ FaceSwap_shows("result")
    /\ FaceSwap_canUndo(FaceSwap)
    /\ FaceSwap' = FaceSwap_undo(FaceSwap)
    /\ UNCHANGED <<FaceSwapInput, pending>>
    /\ FaceSwap_frame

FaceSwap_handleRedo ==
    /\ FaceSwap_shows("result")
    /\ FaceSwap_canRedo(FaceSwap)
    /\ FaceSwap' = FaceSwap_redo(FaceSwap)
    /\ UNCHANGED <<FaceSwapInput, pending>>
    /\ FaceSwap_frame

FaceSwap_startOverMutKeepsSaved(s) ==
    [s EXCEPT !.editHistory = <<>>, !.editHistoryIndex = -1, !.error = "null",
              !.originalImage = NoUrl, !.isEditing = FALSE]
FaceSwap_startOver(s) ==
    [s EXCEPT !.editHistory = <<>>, !.editHistoryIndex = -1, !.error = "null",
              !.originalImage = NoUrl, !.isSaved = FALSE, !.isEditing = FALSE]

\* handleStartOver: "Try Again" of the error branch, "Create Another" of the
\* result branch, and FaceSwapInput's Reset (which first clears both images).
FaceSwap_handleStartOver ==
    /\ FaceSwap_mounted
    /\ FaceSwap_renderContent(FaceSwap) \in {"error", "result", "input"}
    /\ FaceSwap' = FaceSwap_startOver(FaceSwap)
    /\ initialImageFile' = [initialImageFile EXCEPT !["face-swap"] = NoFile]
    /\ FaceSwapInput' = FaceSwapInput_mount(initialImageFile'["face-swap"])
    /\ sessionStart' = Len(libraryCreations)
    /\ pending' = Abandon(pending)
    /\ UNCHANGED <<geminiService, imageForTool, currentTool, libraryCreations, opened, brVars, caVars, anVars>>


(***************************************************************************)
(* BackgroundRemover                                                       *)
(***************************************************************************)
BackgroundRemoverInit ==
    [stage |-> "input", isLoading |-> FALSE, error |-> "null",
     originalImage |-> NoUrl, foregroundImage |-> NoUrl,
     editHistory |-> <<>>, editHistoryIndex |-> -1,
     isSaved |-> FALSE, isCutoutSaved |-> FALSE, isEditing |-> FALSE,
     backgroundPrompt |-> ""]
BackgroundRemoverInputInit == [image |-> NoFile]

\* What the user can type as a background prompt.
BackgroundPrompts == {" ", "a vibrant cityscape at night"}

BackgroundRemover_finalResult(s) ==
    IF Len(s.editHistory) > 0 THEN s.editHistory[s.editHistoryIndex + 1] ELSE NoUrl
BackgroundRemover_canUndo(s) == s.editHistoryIndex > 0
BackgroundRemover_canRedo(s) == s.editHistoryIndex < Len(s.editHistory) - 1

BackgroundRemover_renderContent(s) ==
    IF s.isLoading THEN "loading"
    ELSE IF s.error # "null" THEN "error"
    ELSE IF s.stage = "result" /\ BackgroundRemover_finalResult(s) # NoUrl
            /\ s.originalImage # NoUrl THEN "result"
    ELSE IF s.stage = "editing" /\ s.foregroundImage # NoUrl THEN "editing"
    ELSE "input"

BackgroundRemover_BeforeAfterSlider(s) ==
    [beforeImage |-> s.originalImage, afterImage |-> BackgroundRemover_finalResult(s)]

BackgroundRemover_mounted == currentTool = "background-remover"
BackgroundRemover_shows(view) ==
    BackgroundRemover_mounted /\ BackgroundRemover_renderContent(BackgroundRemover) = view

BackgroundRemoverInput_mount(initialImage) == [image |-> initialImage]
BackgroundRemoverInput_keep(value) ==
    BackgroundRemoverInput' =
        IF BackgroundRemover_renderContent(BackgroundRemover') # "input"
        THEN BackgroundRemoverInputInit
        ELSE IF BackgroundRemover_renderContent(BackgroundRemover) = "input" THEN value
        ELSE BackgroundRemoverInput_mount(initialImageFile["background-remover"])

BackgroundRemover_frame == UNCHANGED <<appVars, fsVars, caVars, anVars>>

BackgroundRemoverInput_handleImageChange ==
    /\ BackgroundRemover_shows("input")
    /\ \E file \in SourceFiles :
          BackgroundRemoverInput' = [BackgroundRemoverInput EXCEPT !.image = file]
    /\ UNCHANGED <<BackgroundRemover, pending>>
    /\ BackgroundRemover_frame

BackgroundRemoverInput_removeImage ==
    /\ BackgroundRemover_shows("input")
    /\ BackgroundRemoverInput.image # NoFile
    /\ BackgroundRemoverInput' = [BackgroundRemoverInput EXCEPT !.image = NoFile]
    /\ UNCHANGED <<BackgroundRemover, pending>>
    /\ BackgroundRemover_frame

BackgroundRemoverInput_submitGuard ==
    BackgroundRemoverInput.image # NoFile /\ ~BackgroundRemover.isLoading
BackgroundRemoverInput_handleSubmit ==
    /\ BackgroundRemover_shows("input")
    /\ BackgroundRemoverInput_submitGuard
    /\ CanSuspend
    /\ pending' = Suspend([h |-> "BackgroundRemoverInput.handleSubmit", pc |-> "fileToImageFile", stale |-> FALSE,
                           image |-> BackgroundRemoverInput.image])
    /\ UNCHANGED <<BackgroundRemover, BackgroundRemoverInput>>
    /\ BackgroundRemover_frame

BackgroundRemoverInput_readFailed ==
    /\ \E op \in Suspended :
          /\ op.h = "BackgroundRemoverInput.handleSubmit"
          /\ pending' = Resume(op)
    /\ UNCHANGED <<BackgroundRemover, BackgroundRemoverInput>>
    /\ BackgroundRemover_frame

\* handleInitialRemoval up to its await of performBackgroundRemoval.
BackgroundRemover_handleInitialRemoval(s, image) ==
    [s EXCEPT !.isLoading = TRUE, !.error = "null", !.editHistory = <<>>,
              !.editHistoryIndex = -1, !.isSaved = FALSE, !.isCutoutSaved = FALSE,
              !.originalImage = DataUrl(image)]

BackgroundRemoverInput_onGenerate ==
    /\ \E op \in Suspended :
          /\ op.h = "BackgroundRemoverInput.handleSubmit"
          /\ BackgroundRemover' = BackgroundRemover_handleInitialRemoval(
                                      BackgroundRemover, fileToImageFile(op.image))
          /\ pending' = Replace(op, [h |-> "BackgroundRemover.handleInitialRemoval",
                                     pc |-> "performBackgroundRemoval", stale |-> op.stale,
                                     image |-> fileToImageFile(op.image),
                                     request |-> performBackgroundRemoval_parts(
                                         fileToImageFile(op.image))])
    /\ BackgroundRemoverInput_keep(BackgroundRemoverInput)
    /\ BackgroundRemover_frame

BackgroundRemover_removalResolved ==
    /\ geminiService.apiKey
    /\ \E op \in Suspended, imageUrl \in Cutouts :
          /\ op.h = "BackgroundRemover.handleInitialRemoval"
          /\ BackgroundRemover' = [BackgroundRemover EXCEPT
                 !.foregroundImage = imageUrl, !.stage = "editing", !.isLoading = FALSE]
          /\ pending' = Resume(op)
    /\ BackgroundRemoverInput_keep(BackgroundRemoverInput)
    /\ BackgroundRemover_frame

BackgroundRemover_removalRejected ==
    /\ \E op \in Suspended, message \in Rejections(geminiService, Failures, ConfigurationError) :
          /\ op.h = "BackgroundRemover.handleInitialRemoval"
          /\ BackgroundRemover' = [BackgroundRemover EXCEPT
                 !.error = OrDefault(message, "An unknown error occurred."),
                 !.stage = "input", !.isLoading = FALSE]
          /\ pending' = Resume(op)
    /\ BackgroundRemoverInput_keep(BackgroundRemoverInput)
    /\ BackgroundRemover_frame

BackgroundRemover_setBackgroundPrompt ==
    /\ BackgroundRemover_shows("editing")
    /\ \E text \in BackgroundPrompts :
          /\ text # BackgroundRemover.backgroundPrompt
          /\ BackgroundRemover' = [BackgroundRemover EXCEPT !.backgroundPrompt = text]
    /\ UNCHANGED <<BackgroundRemoverInput, pending>>
    /\ BackgroundRemover_frame

\* The cutout as the handlers pass it to the service: the payload of its
\* data URL, always declared as PNG.
foregroundFile(foregroundImage) == [data |-> foregroundImage[2], type |-> "image/png"]

\* The three ways from the cutout to a composite.  Each handler sets
\* isLoading before its first await.
BackgroundRemover_handleGenerateBackground ==
    /\ BackgroundRemover_shows("editing")
    /\ Trim(BackgroundRemover.backgroundPrompt) # ""
    /\ CanSuspend
    /\ IF BackgroundRemover.foregroundImage = NoUrl
          \/ Trim(BackgroundRemover.backgroundPrompt) = ""
       THEN UNCHANGED <<BackgroundRemover, pending>>
       ELSE /\ BackgroundRemover' = [BackgroundRemover EXCEPT
                   !.isLoading = TRUE, !.error = "null"]
            /\ pending' = Suspend([h |-> "BackgroundRemover.handleGenerateBackground",
                                   pc |-> "compositeWithGeneratedBackground", stale |-> FALSE,
                                   foregroundImage |-> BackgroundRemover.foregroundImage,
                                   request |-> compositeWithGeneratedBackground_parts(
                                       foregroundFile(BackgroundRemover.foregroundImage),
                                       BackgroundRemover.backgroundPrompt)])
    /\ BackgroundRemoverInput_keep(BackgroundRemoverInput)
    /\ BackgroundRemover_frame

BackgroundRemover_handleUploadBackground ==
    /\ BackgroundRemover_shows("editing")
    /\ CanSuspend
    /\ \E file \in BackgroundFiles :
          IF BackgroundRemover.foregroundImage = NoUrl
          THEN UNCHANGED <<BackgroundRemover, pending>>
          ELSE /\ BackgroundRemover' = [BackgroundRemover EXCEPT
                      !.isLoading = TRUE, !.error = "null"]
               /\ pending' = Suspend([h |-> "BackgroundRemover.handleUploadBackground",
                                      pc |-> "fileToImageFile", stale |-> FALSE, file |-> file,
                                      foregroundImage |-> BackgroundRemover.foregroundImage,
                                      request |-> <<>>])
    /\ BackgroundRemoverInput_keep(BackgroundRemoverInput)
    /\ BackgroundRemover_frame

BackgroundRemover_uploadRead ==
    /\ \E op \in Suspended :
          /\ op.h = "BackgroundRemover.handleUploadBackground"
          /\ op.pc = "fileToImageFile"
          /\ pending' = Replace(op, [op EXCEPT
                             !.pc = "compositeWithUploadedBackground",
                             !.request = compositeWithUploadedBackground_parts(
                                             foregroundFile(op.foregroundImage),
                                             fileToImageFile(op.file))])
    /\ UNCHANGED <<BackgroundRemover, BackgroundRemoverInput>>
    /\ BackgroundRemover_frame

\* handleGreenScreen does not clear the error.
BackgroundRemover_handleGreenScreen ==
    /\ BackgroundRemover_shows("editing")
    /\ CanSuspend
    /\ IF BackgroundRemover.foregroundImage = NoUrl
       THEN UNCHANGED <<BackgroundRemover, pending>>
       ELSE /\ BackgroundRemover' = [BackgroundRemover EXCEPT !.isLoading = TRUE]
            /\ pending' = Suspend([h |-> "BackgroundRemover.handleGreenScreen",
                                   pc |-> "createGreenScreenImage", stale |-> FALSE])
    /\ BackgroundRemoverInput_keep(BackgroundRemoverInput)
    /\ BackgroundRemover_frame

BackgroundRemover_composite ==
    {"compositeWithGeneratedBackground", "compositeWithUploadedBackground",
     "createGreenScreenImage"}
BackgroundRemover_compositeDefault(op) ==
    IF op.h = "BackgroundRemover.handleGenerateBackground" THEN "Failed to generate background."
    ELSE IF op.h = "BackgroundRemover.handleUploadBackground" THEN "Failed to composite images."
    ELSE "Failed to apply green screen."

BackgroundRemover_composited(s, result) ==
    [s EXCEPT !.editHistory = <<result>>, !.editHistoryIndex = 0,
              !.stage = "result", !.isLoading = FALSE]
BackgroundRemover_compositeResolved ==
    /\ geminiService.apiKey
    /\ \E op \in Suspended, result \in Artifacts :
          /\ op.pc \in BackgroundRemover_composite
          /\ BackgroundRemover' = BackgroundRemover_composited(BackgroundRemover, result)
          /\ pending' = Resume(op)
    /\ BackgroundRemoverInput_keep(BackgroundRemoverInput)
    /\ BackgroundRemover_frame

\* A rejection of the composite call, or of the upload's file read, which is
\* inside the same try.
BackgroundRemover_compositeRejected ==
    /\ \E op \in Suspended, message \in Rejections(geminiService, Failures, ConfigurationError) :
          /\ \/ op.pc \in BackgroundRemover_composite
             \/ op.h = "BackgroundRemover.handleUploadBackground"
          /\ BackgroundRemover' = [BackgroundRemover EXCEPT
                 !.error = OrDefault(message, BackgroundRemover_compositeDefault(op)),
                 !.stage = "editing", !.isLoading = FALSE]
          /\ pending' = Resume(op)
    /\ BackgroundRemoverInput_keep(BackgroundRemoverInput)
    /\ BackgroundRemover_frame

BackgroundRemover_handleSave ==
    /\ BackgroundRemover_shows("result")
    /\ ~BackgroundRemover.isSaved
    /\ LibraryHasRoom
    /\ IF BackgroundRemover_finalResult(BackgroundRemover) # NoUrl
          /\ BackgroundRemover.originalImage # NoUrl /\ ~BackgroundRemover.isSaved
       THEN /\ libraryCreations' = handleCreationComplete(
                   [type |-> "Background Edit",
                    originalUrl |-> BackgroundRemover.originalImage,
                    imageUrl |-> BackgroundRemover_finalResult(BackgroundRemover),
                    videoUrl |-> NoUrl])
            /\ BackgroundRemover' = [BackgroundRemover EXCEPT !.isSaved = TRUE]
       ELSE UNCHANGED <<libraryCreations, BackgroundRemover>>
    /\ UNCHANGED <<geminiService, imageForTool, initialImageFile, currentTool, sessionStart, opened, BackgroundRemoverInput, pending, fsVars, caVars, anVars>>

BackgroundRemover_handleSaveCutout ==
    /\ BackgroundRemover_shows("editing")
    /\ ~BackgroundRemover.isCutoutSaved
    /\ LibraryHasRoom
    /\ IF BackgroundRemover.foregroundImage # NoUrl /\ ~BackgroundRemover.isCutoutSaved
       THEN /\ libraryCreations' = handleCreationComplete(
                   [type |-> "Foreground Cutout", originalUrl |-> NoUrl,
                    imageUrl |-> BackgroundRemover.foregroundImage, videoUrl |-> NoUrl])
            /\ BackgroundRemover' = [BackgroundRemover EXCEPT !.isCutoutSaved = TRUE]
       ELSE UNCHANGED <<libraryCreations, BackgroundRemover>>
    /\ UNCHANGED <<geminiService, imageForTool, initialImageFile, currentTool, sessionStart, opened, BackgroundRemoverInput, pending, fsVars, caVars, anVars>>

BackgroundRemover_openEditor ==
    /\ BackgroundRemover_shows("result")
    /\ ~BackgroundRemover.isEditing
    /\ BackgroundRemover' = [BackgroundRemover EXCEPT !.isEditing = TRUE]
    /\ UNCHANGED <<BackgroundRemoverInput, pending>>
    /\ BackgroundRemover_frame

BackgroundRemover_closeEditor ==
    /\ BackgroundRemover_shows("result")
    /\ BackgroundRemover.isEditing
    /\ BackgroundRemover' = [BackgroundRemover EXCEPT !.isEditing = FALSE]
    /\ UNCHANGED <<BackgroundRemoverInput, pending>>
    /\ BackgroundRemover_frame

BackgroundRemover_handleEditComplete(s, newImageUrl) ==
    LET newHistory == Append(SubSeq(s.editHistory, 1, s.editHistoryIndex + 1), newImageUrl)
    IN [s EXCEPT !.editHistory = newHistory,
                 !.editHistoryIndex = Len(newHistory) - 1,
                 !.isEditing = FALSE, !.isSaved = FALSE]

BackgroundRemover_editorSave ==
    /\ BackgroundRemover_shows("result")
    /\ BackgroundRemover.isEditing
    /\ BackgroundRemover.editHistoryIndex + 2 <= MaxCompositeHistory
    /\ \E dataUrl \in Artifacts :
          BackgroundRemover' = BackgroundRemover_handleEditComplete(BackgroundRemover, dataUrl)
    /\ UNCHANGED <<BackgroundRemoverInput, pending>>
    /\ BackgroundRemover_frame

BackgroundRemover_undo(s) ==
    IF BackgroundRemover_canUndo(s) THEN [s EXCEPT !.editHistoryIndex = @ - 1] ELSE s
BackgroundRemover_redo(s) ==
    IF BackgroundRemover_canRedo(s) THEN [s EXCEPT !.editHistoryIndex = @ + 1] ELSE s

BackgroundRemover_handleUndo ==
    /\ BackgroundRemover_shows("result")
    /\ BackgroundRemover_canUndo(BackgroundRemover)
    /\ BackgroundRemover' = BackgroundRemover_undo(BackgroundRemover)
    /\ UNCHANGED <<BackgroundRemoverInput, pending>>
    /\ BackgroundRemover_frame

BackgroundRemover_handleRedo ==
    /\ BackgroundRemover_shows("result")
    /\ BackgroundRemover_canRedo(BackgroundRemover)
    /\ BackgroundRemover' = BackgroundRemover_redo(BackgroundRemover)
    /\ UNCHANGED <<BackgroundRemoverInput, pending>>
    /\ BackgroundRemover_frame

BackgroundRemover_startOver(s) ==
    [s EXCEPT !.stage = "input", !.error = "null", !.originalImage = NoUrl,
              !.foregroundImage = NoUrl, !.editHistory = <<>>, !.editHistoryIndex = -1,
              !.isSaved = FALSE, !.isCutoutSaved = FALSE, !.isEditing = FALSE,
              !.backgroundPrompt = ""]

\* handleStartOver: the "Start Over" button of the result and editing branches.
BackgroundRemover_handleStartOver ==
    /\ BackgroundRemover_mounted
    /\ BackgroundRemover_renderContent(BackgroundRemover) \in {"result", "editing"}
    /\ BackgroundRemover' = BackgroundRemover_startOver(BackgroundRemover)
    /\ initialImageFile' = [initialImageFile EXCEPT !["background-remover"] = NoFile]
    /\ BackgroundRemoverInput' = BackgroundRemoverInput_mount(initialImageFile'["background-remover"])
    /\ sessionStart' = Len(libraryCreations)
    /\ pending' = Abandon(pending)
    /\ UNCHANGED <<geminiService, imageForTool, currentTool, libraryCreations, opened, fsVars, caVars, anVars>>

BackgroundRemover_tryAgainMutToInput ==
    /\ BackgroundRemover_shows("error")
    /\ BackgroundRemover' = [BackgroundRemover EXCEPT !.error = "null", !.stage = "input"]
    /\ BackgroundRemoverInput_keep(BackgroundRemoverInput)
    /\ UNCHANGED pending
    /\ BackgroundRemover_frame
\* "Try Again" of the error branch.
BackgroundRemover_tryAgain ==
    /\ BackgroundRemover_shows("error")
    /\ BackgroundRemover' = [BackgroundRemover EXCEPT !.error = "null", !.stage = "editing"]
    /\ BackgroundRemoverInput_keep(BackgroundRemoverInput)
    /\ UNCHANGED pending
    /\ BackgroundRemover_frame

(***************************************************************************)
(* CreativeAssistant                                                       *)
(***************************************************************************)
Genres == {"None", "Pop"}
IterationPrompts == {" ", "add a hat"}
DetailedPrompts == {"A lone astronaut on a red planet, cinematic lighting."}
\* ASPECT_RATIOS of TopicInput: the default and one other.
AspectRatios == {"16:9", "1:1"}

CreativeAssistantInit ==
    [isLoading |-> FALSE, error |-> "null", generateLyricsFlag |-> FALSE,
     controls |-> [genre |-> "None", aspectRatio |-> "16:9"],
     sourceImage |-> NoImage, assetLibrary |-> <<>>,
     stage |-> "prompt", detailedPrompt |-> "",
     textResult |-> <<>>, lyricsResult |-> <<>>,
     imageHistory |-> <<>>, currentHistoryIndex |-> 0,
     savedImageUrls |-> {}, editingImage |-> NoUrl]
TopicInputInit ==
    [controls |-> [genre |-> "None", aspectRatio |-> "16:9"], iterationPrompt |-> "",
     sourceImage |-> NoImage, sourceImagePreview |-> NoFile,
     assetLibrary |-> <<>>, selectedAssets |-> <<>>, reads |-> EmptyBag]

\* array[index] of JavaScript: undefined (NoUrl here) outside the array.
At(array, index) ==
    IF 0 <= index /\ index < Len(array) THEN array[index + 1] ELSE NoUrl

\* The three returns of the component: spinner, error panel, main view.
CreativeAssistant_render(s) ==
    IF s.isLoading /\ s.stage # "iterate" THEN "loading"
    ELSE IF s.error # "null" THEN "error"
    ELSE "main"
CreativeAssistant_showsResults(s) ==
    /\ CreativeAssistant_render(s) = "main"
    /\ s.stage = "iterate"
    /\ Len(s.imageHistory) > 0
CreativeAssistant_isViewingLatestMutAlways(s) == TRUE
CreativeAssistant_isViewingLatest(s) ==
    s.currentHistoryIndex = Len(s.imageHistory) - 1
CreativeAssistant_isCurrentSaved(s) ==
    At(s.imageHistory, s.currentHistoryIndex) \in s.savedImageUrls

\* renderResults: the slider is rendered only when the image under the cursor
\* has a predecessor; the first image is shown alone.
NoComparison == [beforeImage |-> NoUrl, afterImage |-> NoUrl]
CreativeAssistant_BeforeAfterSlider(s) ==
    IF At(s.imageHistory, s.currentHistoryIndex - 1) # NoUrl
    THEN [beforeImage |-> At(s.imageHistory, s.currentHistoryIndex - 1),
          afterImage |-> At(s.imageHistory, s.currentHistoryIndex)]
    ELSE NoComparison

CreativeAssistant_mounted == currentTool = "creative-assistant"
\* TopicInput is rendered by the main view, in the form of the given stage.
TopicInput_shows(stage) ==
    /\ CreativeAssistant_mounted
    /\ CreativeAssistant_render(CreativeAssistant) = "main"
    /\ CreativeAssistant.stage = stage

\* TopicInput lives only while the main view is rendered.
TopicInput_keep(value) ==
    TopicInput' = IF CreativeAssistant_render(CreativeAssistant') = "main"
                  THEN value ELSE TopicInputInit

CreativeAssistant_frame == UNCHANGED <<appVars, fsVars, brVars, anVars>>
CreativeAssistant_canSuspend == BagCardinality(pending) < MaxPendingAssistant

TopicInput_setGenre ==
    /\ TopicInput_shows("prompt")
    /\ \E genre \in Genres :
          /\ genre # TopicInput.controls.genre
          /\ TopicInput' = [TopicInput EXCEPT !.controls.genre = genre]
    /\ UNCHANGED <<CreativeAssistant, pending>>
    /\ CreativeAssistant_frame

\* The lyrics checkbox, rendered only for a genre other than 'None'.
TopicInput_setGenerateLyricsFlag ==
    /\ TopicInput_shows("prompt")
    /\ TopicInput.controls.genre # "None"
    /\ CreativeAssistant' = [CreativeAssistant EXCEPT !.generateLyricsFlag = ~@]
    /\ UNCHANGED <<TopicInput, pending>>
    /\ CreativeAssistant_frame

\* The source image of the prompt form.  handleSourceImageChange shows the
\* preview at once and sets the source image when the file is read; a file
\* can be dropped on the zone whether or not a preview is shown.  The reads in
\* flight are the form's own: they end with it.
TopicInput_handleSourceImageChange ==
    /\ TopicInput_shows("prompt")
    /\ BagCardinality(TopicInput.reads) < MaxReads
    /\ \E file \in SourceFiles :
          TopicInput' = [TopicInput EXCEPT
              !.sourceImagePreview = file,
              !.reads = @ (+) SetToBag({[of |-> "sourceImage", file |-> file]})]
    /\ UNCHANGED <<CreativeAssistant, pending>>
    /\ CreativeAssistant_frame

TopicInput_sourceImageRead ==
    /\ CreativeAssistant_mounted
    /\ \E read \in BagToSet(TopicInput.reads) :
          /\ read.of = "sourceImage"
          /\ TopicInput' = [TopicInput EXCEPT
                 !.sourceImage = fileToImageFile(read.file),
                 !.reads = @ (-) SetToBag({read})]
    /\ UNCHANGED <<CreativeAssistant, pending>>
    /\ CreativeAssistant_frame

\* reader.onerror: the handler ends at its await, the preview stays.
TopicInput_sourceImageReadFailed ==
    /\ CreativeAssistant_mounted
    /\ \E read \in BagToSet(TopicInput.reads) :
          /\ read.of = "sourceImage"
          /\ TopicInput' = [TopicInput EXCEPT !.reads = @ (-) SetToBag({read})]
    /\ UNCHANGED <<CreativeAssistant, pending>>
    /\ CreativeAssistant_frame

\* The dropzone renders its remove button only over a preview.
TopicInput_handleRemoveSourceImage ==
    /\ TopicInput_shows("prompt")
    /\ TopicInput.sourceImagePreview # NoFile
    /\ TopicInput' = [TopicInput EXCEPT
           !.sourceImage = NoImage, !.sourceImagePreview = NoFile]
    /\ UNCHANGED <<CreativeAssistant, pending>>
    /\ CreativeAssistant_frame

\* The asset library of the prompt form: files are read and appended,
\* an asset is selected or deselected by its data, and removed by its data.
TopicInput_handleAssetChange ==
    /\ TopicInput_shows("prompt")
    /\ BagCardinality(TopicInput.reads) < MaxReads
    /\ Len(TopicInput.assetLibrary) + BagCardinality(TopicInput.reads) < MaxAssets
    /\ \E file \in AssetFiles :
          TopicInput' = [TopicInput EXCEPT
              !.reads = @ (+) SetToBag({[of |-> "assetLibrary", file |-> file]})]
    /\ UNCHANGED <<CreativeAssistant, pending>>
    /\ CreativeAssistant_frame

TopicInput_assetsRead ==
    /\ CreativeAssistant_mounted
    /\ \E read \in BagToSet(TopicInput.reads) :
          /\ read.of = "assetLibrary"
          /\ TopicInput' = [TopicInput EXCEPT
                 !.assetLibrary = Append(@, fileToImageFile(read.file)),
                 !.reads = @ (-) SetToBag({read})]
    /\ UNCHANGED <<CreativeAssistant, pending>>
    /\ CreativeAssistant_frame

TopicInput_assetsReadFailed ==
    /\ CreativeAssistant_mounted
    /\ \E read \in BagToSet(TopicInput.reads) :
          /\ read.of = "assetLibrary"
          /\ TopicInput' = [TopicInput EXCEPT !.reads = @ (-) SetToBag({read})]
    /\ UNCHANGED <<CreativeAssistant, pending>>
    /\ CreativeAssistant_frame

WithoutData(assets, data) == SelectSeq(assets, LAMBDA a : a.data # data)
toggleAssetSelection(prev, asset) ==
    IF \E i \in DOMAIN prev : prev[i].data = asset.data
    THEN WithoutData(prev, asset.data)
    ELSE Append(prev, asset)

TopicInput_toggleAssetSelection ==
    /\ TopicInput_shows("prompt")
    /\ \E i \in DOMAIN TopicInput.assetLibrary :
          TopicInput' = [TopicInput EXCEPT
              !.selectedAssets = toggleAssetSelection(@, TopicInput.assetLibrary[i])]
    /\ UNCHANGED <<CreativeAssistant, pending>>
    /\ CreativeAssistant_frame

TopicInput_removeAsset ==
    /\ TopicInput_shows("prompt")
    /\ \E i \in DOMAIN TopicInput.assetLibrary :
          TopicInput' = [TopicInput EXCEPT
              !.assetLibrary = WithoutData(@, TopicInput.assetLibrary[i].data),
              !.selectedAssets = WithoutData(@, TopicInput.assetLibrary[i].data)]
    /\ UNCHANGED <<CreativeAssistant, pending>>
    /\ CreativeAssistant_frame

\* The aspect ratio select is disabled while a source image is set.
\* The aspect ratio select is disabled by an attached source image.
TopicInput_aspectRatioDisabledMutNever(s) == FALSE
TopicInput_aspectRatioDisabled(s) == s.sourceImage # NoImage

TopicInput_setAspectRatio ==
    /\ TopicInput_shows("prompt")
    /\ ~TopicInput_aspectRatioDisabled(TopicInput)
    /\ \E aspectRatio \in AspectRatios :
          /\ aspectRatio # TopicInput.controls.aspectRatio
          /\ TopicInput' = [TopicInput EXCEPT !.controls.aspectRatio = aspectRatio]
    /\ UNCHANGED <<CreativeAssistant, pending>>
    /\ CreativeAssistant_frame

\* randomizeControls draws style, genre, lighting, mood and camera angle.
randomizeControls(c, genre) == [c EXCEPT !.genre = genre]
TopicInput_randomizeControls ==
    /\ TopicInput_shows("prompt")
    /\ \E genre \in Genres :
          /\ genre # TopicInput.controls.genre
          /\ TopicInput' = [TopicInput EXCEPT !.controls = randomizeControls(@, genre)]
    /\ UNCHANGED <<CreativeAssistant, pending>>
    /\ CreativeAssistant_frame

\* handleGeneratePrompt asks for the prompt from the source image when there
\* is one, from the text otherwise.
CreativeAssistant_promptRequest(currentSourceImage, currentAssets) ==
    IF currentSourceImage # NoImage
    THEN generateDetailedPromptFromImage_parts(currentSourceImage, currentAssets)
    ELSE generateDetailedPromptFromText_parts(currentAssets)

\* handleSubmitPrompt -> handleGeneratePrompt, up to its await.
TopicInput_handleSubmitPrompt ==
    /\ TopicInput_shows("prompt")
    /\ ~CreativeAssistant.isLoading
    /\ CreativeAssistant_canSuspend
    /\ CreativeAssistant' = [CreativeAssistant EXCEPT
           !.isLoading = TRUE, !.error = "null", !.controls = TopicInput.controls,
           !.sourceImage = TopicInput.sourceImage,
           !.assetLibrary = TopicInput.selectedAssets]
    /\ pending' = Suspend([h |-> "CreativeAssistant.handleGeneratePrompt",
                           pc |-> "generateDetailedPrompt", stale |-> FALSE,
                           sourceImage |-> TopicInput.sourceImage,
                           assetLibrary |-> TopicInput.selectedAssets,
                           request |-> CreativeAssistant_promptRequest(
                                           TopicInput.sourceImage, TopicInput.selectedAssets)])
    /\ TopicInput_keep(TopicInput)
    /\ CreativeAssistant_frame

CreativeAssistant_promptResolved ==
    /\ geminiService.apiKey
    /\ \E op \in Suspended, generatedPrompt \in DetailedPrompts :
          /\ op.h = "CreativeAssistant.handleGeneratePrompt"
          /\ CreativeAssistant' = [CreativeAssistant EXCEPT
                 !.detailedPrompt = generatedPrompt, !.stage = "content",
                 !.isLoading = FALSE]
          /\ pending' = Resume(op)
    /\ TopicInput_keep(TopicInput)
    /\ CreativeAssistant_frame

CreativeAssistant_promptRejected ==
    /\ \E op \in Suspended, message \in Rejections(geminiService, Failures, ConfigurationError) :
          /\ op.h = "CreativeAssistant.handleGeneratePrompt"
          /\ CreativeAssistant' = [CreativeAssistant EXCEPT
                 !.error = OrDefault(message, "Failed to generate prompt."),
                 !.isLoading = FALSE]
          /\ pending' = Resume(op)
    /\ TopicInput_keep(TopicInput)
    /\ CreativeAssistant_frame

\* handleSubmitContent -> handleGenerateContent, up to its await of
\* generateImage.  The handler keeps the generateLyricsFlag and controls of the
\* render it was created in.
\* handleGenerateContent up to its first await: the handler waits for
\* generateImage with the lyrics flag and genre of the render it was called
\* in, and has started no stream.
CreativeAssistant_handleGenerateContentMutEager(s) ==
    [h |-> "CreativeAssistant.handleGenerateContent",
     pc |-> "generateImage", stale |-> FALSE,
     generateLyricsFlag |-> s.generateLyricsFlag,
     genre |-> s.controls.genre,
     text |-> "open", lyrics |-> "idle",
     textSent |-> 0, lyricsSent |-> 0,
     sourceImage |-> s.sourceImage, assetLibrary |-> s.assetLibrary,
     request |-> generateImage_parts(s.detailedPrompt, s.sourceImage, s.assetLibrary),
     textRequest |-> <<>>, lyricsRequest |-> <<>>]
CreativeAssistant_handleGenerateContent(s) ==
    [h |-> "CreativeAssistant.handleGenerateContent",
     pc |-> "generateImage", stale |-> FALSE,
     generateLyricsFlag |-> s.generateLyricsFlag,
     genre |-> s.controls.genre,
     text |-> "idle", lyrics |-> "idle",
     textSent |-> 0, lyricsSent |-> 0,
     sourceImage |-> s.sourceImage, assetLibrary |-> s.assetLibrary,
     request |-> generateImage_parts(s.detailedPrompt, s.sourceImage, s.assetLibrary),
     textRequest |-> <<>>, lyricsRequest |-> <<>>]

TopicInput_handleSubmitContent ==
    /\ TopicInput_shows("content")
    /\ ~CreativeAssistant.isLoading
    /\ CreativeAssistant_canSuspend
    /\ CreativeAssistant' = [CreativeAssistant EXCEPT
           !.isLoading = TRUE, !.error = "null", !.textResult = <<>>,
           !.lyricsResult = <<>>]
    /\ pending' = Suspend(CreativeAssistant_handleGenerateContent(CreativeAssistant))
    /\ TopicInput_keep(TopicInput)
    /\ CreativeAssistant_frame

CreativeAssistant_startsLyrics(op) == op.generateLyricsFlag /\ op.genre # "None"

\* generateImage resolved: the image opens the history, then the streams start.
CreativeAssistant_imageResolved ==
    /\ geminiService.apiKey
    /\ \E op \in Suspended, imageUrl \in Artifacts :
          /\ op.h = "CreativeAssistant.handleGenerateContent"
          /\ op.pc = "generateImage"
          /\ CreativeAssistant' = [CreativeAssistant EXCEPT
                 !.imageHistory = <<imageUrl>>, !.currentHistoryIndex = 0]
          /\ pending' = Replace(op, [op EXCEPT
                 !.pc = "Promise.all", !.text = "open",
                 !.lyrics = IF CreativeAssistant_startsLyrics(op) THEN "open" ELSE "idle",
                 !.textRequest = generateTextStream_parts(op.sourceImage, op.assetLibrary),
                 !.lyricsRequest = IF CreativeAssistant_startsLyrics(op)
                                   THEN generateLyricsStream_parts ELSE <<>>])
    /\ TopicInput_keep(TopicInput)
    /\ CreativeAssistant_frame

CreativeAssistant_contentFailedMutNoFinally(s, message) ==
    [s EXCEPT !.error = OrDefault(message, "An error occurred during content generation.")]
\* The catch and finally of handleGenerateContent.
CreativeAssistant_contentFailed(s, message) ==
    [s EXCEPT !.error = OrDefault(message, "An error occurred during content generation."),
              !.isLoading = FALSE]

CreativeAssistant_imageRejected ==
    /\ \E op \in Suspended, message \in Rejections(geminiService, Failures \cup {"No image was generated."},
                                                  ConfigurationError) :
          /\ op.h = "CreativeAssistant.handleGenerateContent"
          /\ op.pc = "generateImage"
          /\ CreativeAssistant' = CreativeAssistant_contentFailed(CreativeAssistant, message)
          /\ pending' = Resume(op)
    /\ TopicInput_keep(TopicInput)
    /\ CreativeAssistant_frame

\* Promise.all(streamPromises): fulfilled when every started stream has ended.
CreativeAssistant_allFulfilledMutRace(op) == op.text = "done" \/ op.lyrics = "done"
CreativeAssistant_allFulfilled(op) == op.text = "done" /\ op.lyrics \in {"done", "idle"}
CreativeAssistant_streamsOpen(op) == op.text = "open" \/ op.lyrics = "open"

\* A stream of the handler op ended or threw, which makes the handler next.
\* The handler goes on after Promise.all once all streams are fulfilled, and
\* into its catch at the first rejection; a stream still open then keeps
\* running with nobody awaiting it.
CreativeAssistant_streamSettled(op, next, failure) ==
    IF op.pc = "Promise.all" /\ failure # "null"
    THEN /\ CreativeAssistant' = CreativeAssistant_contentFailed(CreativeAssistant, failure)
         /\ pending' = IF CreativeAssistant_streamsOpen(next)
                       THEN Replace(op, [next EXCEPT !.pc = "detached"])
                       ELSE Resume(op)
    ELSE IF op.pc = "Promise.all" /\ CreativeAssistant_allFulfilled(next)
    THEN /\ CreativeAssistant' = [CreativeAssistant EXCEPT
                !.stage = "iterate", !.isLoading = FALSE]
         /\ pending' = IF CreativeAssistant_streamsOpen(next)
                       THEN Replace(op, [next EXCEPT !.pc = "detached"])
                       ELSE Resume(op)
    ELSE /\ CreativeAssistant' = CreativeAssistant
         /\ pending' = IF CreativeAssistant_streamsOpen(next)
                       THEN Replace(op, next) ELSE Resume(op)

StreamFailures == {ConfigurationError, "stream interrupted"}

\* for await (const chunk of stream) setTextResult(prev => prev + chunk)
CreativeAssistant_textChunk ==
    /\ \E op \in Suspended :
          /\ op.h = "CreativeAssistant.handleGenerateContent"
          /\ op.text = "open"
          /\ op.textSent < MaxChunks
          /\ CreativeAssistant' = [CreativeAssistant EXCEPT
                 !.textResult = Append(@, op.textSent + 1)]
          /\ pending' = Replace(op, [op EXCEPT !.textSent = @ + 1])
    /\ TopicInput_keep(TopicInput)
    /\ CreativeAssistant_frame

CreativeAssistant_textEnd ==
    /\ \E op \in Suspended :
          /\ op.h = "CreativeAssistant.handleGenerateContent"
          /\ op.text = "open"
          /\ op.textSent = MaxChunks
          /\ CreativeAssistant_streamSettled(op, [op EXCEPT !.text = "done"], "null")
    /\ TopicInput_keep(TopicInput)
    /\ CreativeAssistant_frame

CreativeAssistant_textFailed ==
    /\ \E op \in Suspended, message \in StreamFailures :
          /\ op.h = "CreativeAssistant.handleGenerateContent"
          /\ op.text = "open"
          /\ CreativeAssistant_streamSettled(op, [op EXCEPT !.text = "failed"], message)
    /\ TopicInput_keep(TopicInput)
    /\ CreativeAssistant_frame

CreativeAssistant_lyricsChunk ==
    /\ \E op \in Suspended :
          /\ op.h = "CreativeAssistant.handleGenerateContent"
          /\ op.lyrics = "open"
          /\ op.lyricsSent < MaxChunks
          /\ CreativeAssistant' = [CreativeAssistant EXCEPT
                 !.lyricsResult = Append(@, op.lyricsSent + 1)]
          /\ pending' = Replace(op, [op EXCEPT !.lyricsSent = @ + 1])
    /\ TopicInput_keep(TopicInput)
    /\ CreativeAssistant_frame

CreativeAssistant_lyricsEnd ==
    /\ \E op \in Suspended :
          /\ op.h = "CreativeAssistant.handleGenerateContent"
          /\ op.lyrics = "open"
          /\ op.lyricsSent = MaxChunks
          /\ CreativeAssistant_streamSettled(op, [op EXCEPT !.lyrics = "done"], "null")
    /\ TopicInput_keep(TopicInput)
    /\ CreativeAssistant_frame

CreativeAssistant_lyricsFailed ==
    /\ \E op \in Suspended, message \in StreamFailures :
          /\ op.h = "CreativeAssistant.handleGenerateContent"
          /\ op.lyrics = "open"
          /\ CreativeAssistant_streamSettled(op, [op EXCEPT !.lyrics = "failed"], message)
    /\ TopicInput_keep(TopicInput)
    /\ CreativeAssistant_frame

TopicInput_setIterationPrompt ==
    /\ TopicInput_shows("iterate")
    /\ CreativeAssistant_isViewingLatest(CreativeAssistant)
    /\ ~CreativeAssistant.isLoading
    /\ \E text \in IterationPrompts :
          /\ text # TopicInput.iterationPrompt
          /\ TopicInput' = [TopicInput EXCEPT !.iterationPrompt = text]
    /\ UNCHANGED <<CreativeAssistant, pending>>
    /\ CreativeAssistant_frame

\* handleIterateImage edits the last image of the history: it is parsed out
\* of its data URL and sent as the source image, with no assets.
lastImageFile(imageHistory) ==
    LET lastImage == imageHistory[Len(imageHistory)]
    IN [data |-> lastImage[2],
        type |-> IF Len(lastImage[1]) > 6 /\ SubSeq(lastImage[1], 1, 6) = "image/"
                 THEN lastImage[1] ELSE "image/png"]
CreativeAssistant_iterateRequestMutWithAssets(s, iterationPrompt) ==
    generateImage_parts(iterationPrompt, lastImageFile(s.imageHistory), s.assetLibrary)
CreativeAssistant_iterateRequest(s, iterationPrompt) ==
    generateImage_parts(iterationPrompt, lastImageFile(s.imageHistory), <<>>)

\* handleSubmitIteration -> handleIterateImage, up to its await.  Reading the
\* last image of an empty history throws before the try block: the handler
\* ends there, with isLoading left set.
TopicInput_handleSubmitIteration ==
    /\ TopicInput_shows("iterate")
    /\ CreativeAssistant_isViewingLatest(CreativeAssistant)
    /\ ~CreativeAssistant.isLoading
    /\ Trim(TopicInput.iterationPrompt) # ""
    /\ Len(CreativeAssistant.imageHistory) < MaxHistory
    /\ CreativeAssistant_canSuspend
    /\ CreativeAssistant' = [CreativeAssistant EXCEPT !.isLoading = TRUE, !.error = "null"]
    /\ pending' = IF Len(CreativeAssistant.imageHistory) = 0
                  THEN pending
                  ELSE Suspend([h |-> "CreativeAssistant.handleIterateImage",
                                pc |-> "generateImage", stale |-> FALSE,
                                imageHistory |-> CreativeAssistant.imageHistory,
                                request |-> CreativeAssistant_iterateRequest(
                                    CreativeAssistant, TopicInput.iterationPrompt)])
    /\ TopicInput_keep([TopicInput EXCEPT !.iterationPrompt = ""])
    /\ CreativeAssistant_frame

\* [...imageHistory, imageResult.imageUrl] with the imageHistory of the render
\* the handler was created in.
CreativeAssistant_iterated(s, op, imageUrl) ==
    LET newHistory == Append(op.imageHistory, imageUrl)
    IN [s EXCEPT !.imageHistory = newHistory,
                 !.currentHistoryIndex = Len(newHistory) - 1, !.isLoading = FALSE]

CreativeAssistant_iterateResolved ==
    /\ geminiService.apiKey
    /\ \E op \in Suspended, imageUrl \in Artifacts :
          /\ op.h = "CreativeAssistant.handleIterateImage"
          /\ CreativeAssistant' = CreativeAssistant_iterated(CreativeAssistant, op, imageUrl)
          /\ pending' = Resume(op)
    /\ TopicInput_keep(TopicInput)
    /\ CreativeAssistant_frame

CreativeAssistant_iterateRejected ==
    /\ \E op \in Suspended, message \in Rejections(geminiService, Failures, ConfigurationError) :
          /\ op.h = "CreativeAssistant.handleIterateImage"
          /\ CreativeAssistant' = [CreativeAssistant EXCEPT
                 !.error = OrDefault(message, "Failed to iterate on the image."),
                 !.isLoading = FALSE]
          /\ pending' = Resume(op)
    /\ TopicInput_keep(TopicInput)
    /\ CreativeAssistant_frame

TopicInput_onGoToLatest ==
    /\ TopicInput_shows("iterate")
    /\ ~CreativeAssistant_isViewingLatest(CreativeAssistant)
    /\ CreativeAssistant' = [CreativeAssistant EXCEPT
           !.currentHistoryIndex = Len(CreativeAssistant.imageHistory) - 1]
    /\ UNCHANGED <<TopicInput, pending>>
    /\ CreativeAssistant_frame

\* A thumbnail of the generation history.
CreativeAssistant_setCurrentHistoryIndex ==
    /\ CreativeAssistant_mounted
    /\ CreativeAssistant_showsResults(CreativeAssistant)
    /\ Len(CreativeAssistant.imageHistory) > 1
    /\ \E index \in 0 .. Len(CreativeAssistant.imageHistory) - 1 :
          /\ index # CreativeAssistant.currentHistoryIndex
          /\ CreativeAssistant' = [CreativeAssistant EXCEPT !.currentHistoryIndex = index]
    /\ UNCHANGED <<TopicInput, pending>>
    /\ CreativeAssistant_frame

\* The Edit button of the results: setEditingImage(currentImage).
CreativeAssistant_openEditor ==
    /\ CreativeAssistant_mounted
    /\ CreativeAssistant_showsResults(CreativeAssistant)
    /\ CreativeAssistant.editingImage = NoUrl
    /\ CreativeAssistant' = [CreativeAssistant EXCEPT
           !.editingImage = At(CreativeAssistant.imageHistory,
                               CreativeAssistant.currentHistoryIndex)]
    /\ UNCHANGED <<TopicInput, pending>>
    /\ CreativeAssistant_frame

CreativeAssistant_editorShown ==
    /\ CreativeAssistant_mounted
    /\ CreativeAssistant_render(CreativeAssistant) = "main"
    /\ CreativeAssistant.editingImage # NoUrl

CreativeAssistant_closeEditor ==
    /\ CreativeAssistant_editorShown
    /\ CreativeAssistant' = [CreativeAssistant EXCEPT !.editingImage = NoUrl]
    /\ UNCHANGED <<TopicInput, pending>>
    /\ CreativeAssistant_frame

CreativeAssistant_handleEditComplete(s, newImageUrl) ==
    LET newHistory == Append(s.imageHistory, newImageUrl)
    IN [s EXCEPT !.imageHistory = newHistory,
                 !.currentHistoryIndex = Len(newHistory) - 1,
                 !.editingImage = NoUrl]

\* "Apply & Save" of the editor: onSave(dataUrl).
CreativeAssistant_editorSave ==
    /\ CreativeAssistant_editorShown
    /\ Len(CreativeAssistant.imageHistory) < MaxHistory
    /\ \E dataUrl \in Artifacts :
          CreativeAssistant' = CreativeAssistant_handleEditComplete(CreativeAssistant, dataUrl)
    /\ UNCHANGED <<TopicInput, pending>>
    /\ CreativeAssistant_frame

CreativeAssistant_handleSaveToLibrary ==
    /\ CreativeAssistant_mounted
    /\ CreativeAssistant_showsResults(CreativeAssistant)
    /\ ~CreativeAssistant_isCurrentSaved(CreativeAssistant)
    /\ LibraryHasRoom
    /\ LET currentImage == At(CreativeAssistant.imageHistory,
                              CreativeAssistant.currentHistoryIndex)
       IN IF currentImage # NoUrl /\ currentImage \notin CreativeAssistant.savedImageUrls
          THEN /\ libraryCreations' = handleCreationComplete(
                      [type |-> "Jackson's Creative AI", originalUrl |-> NoUrl,
                       imageUrl |-> currentImage, videoUrl |-> NoUrl])
               /\ CreativeAssistant' = [CreativeAssistant EXCEPT
                      !.savedImageUrls = @ \cup {currentImage}]
          ELSE UNCHANGED <<libraryCreations, CreativeAssistant>>
    /\ UNCHANGED <<geminiService, imageForTool, initialImageFile, currentTool, sessionStart, opened, TopicInput, pending,
                   fsVars, brVars, anVars>>

CreativeAssistant_startOver(s) ==
    [s EXCEPT !.isLoading = FALSE, !.error = "null", !.stage = "prompt",
              !.sourceImage = NoImage, !.assetLibrary = <<>>,
              !.detailedPrompt = "", !.textResult = <<>>, !.lyricsResult = <<>>,
              !.imageHistory = <<>>, !.currentHistoryIndex = 0,
              !.savedImageUrls = {}, !.editingImage = NoUrl]

\* resetAll: "Reset" of the prompt form, "Start Over" of the other two.
TopicInput_resetAll ==
    /\ CreativeAssistant_mounted
    /\ CreativeAssistant_render(CreativeAssistant) = "main"
    /\ CreativeAssistant' = CreativeAssistant_startOver(CreativeAssistant)
    /\ TopicInput_keep([TopicInput EXCEPT
           !.sourceImage = NoImage, !.sourceImagePreview = NoFile,
           !.assetLibrary = <<>>, !.selectedAssets = <<>>])
    /\ sessionStart' = Len(libraryCreations)
    /\ pending' = Abandon(pending)
    /\ UNCHANGED <<geminiService, imageForTool, initialImageFile, currentTool, libraryCreations, opened, fsVars, brVars, anVars>>

\* "Start Over" of the error panel.
CreativeAssistant_handleStartOver ==
    /\ CreativeAssistant_mounted
    /\ CreativeAssistant_render(CreativeAssistant) = "error"
    /\ CreativeAssistant' = CreativeAssistant_startOver(CreativeAssistant)
    /\ TopicInput_keep(TopicInput)
    /\ sessionStart' = Len(libraryCreations)
    /\ pending' = Abandon(pending)
    /\ UNCHANGED <<geminiService, imageForTool, initialImageFile, currentTool, libraryCreations, opened, fsVars, brVars, anVars>>

(***************************************************************************)
(* CharacterAnimator                                                       *)
(***************************************************************************)
VEO_API_KEY_ERROR_MESSAGE == "Requested entity was not found."
Motions == {" ", "waving hello"}
Videos == {<<"blob:", 21>>}
\* What the video backend reports for the operation: done or not, and, when
\* done, with or without a download link.
Operations ==
    {[done |-> FALSE, uri |-> FALSE], [done |-> TRUE, uri |-> TRUE],
     [done |-> TRUE, uri |-> FALSE]}
\* A download response that is not ok: its status text and its body.
ErrorResponses ==
    {[statusText |-> "Not Found",
      body |-> "{\"error\": {\"code\": 404, \"message\": \"Requested entity was not found.\"}}"],
     [statusText |-> "Service Unavailable", body |-> "upstream connect error"]}
AnimationFailures == {"API_KEY environment variable is not configured.", ""}

\* String.prototype.includes
Includes(text, part) ==
    \E i \in 1 .. Len(text) - Len(part) + 1 : SubSeq(text, i, i + Len(part) - 1) = part

CharacterAnimatorInit ==
    [isLoading |-> FALSE, error |-> "null", resultUrl |-> NoUrl,
     originalCharacterUrl |-> NoUrl, apiKeyStatus |-> "checking"]
CharacterAnimatorInputInit == [characterImage |-> NoFile, motion |-> ""]

CharacterAnimator_renderContentMutNoPrompt(s) ==
    IF s.apiKeyStatus = "checking" THEN "checking"
    ELSE IF s.isLoading THEN "loading"
    ELSE IF s.error # "null" THEN "error"
    ELSE IF s.resultUrl # NoUrl THEN "result"
    ELSE "input"
CharacterAnimator_renderContent(s) ==
    IF s.apiKeyStatus = "checking" THEN "checking"
    ELSE IF s.apiKeyStatus = "not-selected" THEN "not-selected"
    ELSE IF s.isLoading THEN "loading"
    ELSE IF s.error # "null" THEN "error"
    ELSE IF s.resultUrl # NoUrl THEN "result"
    ELSE "input"

CharacterAnimator_mounted == currentTool = "character-animator"
CharacterAnimator_shows(view) ==
    CharacterAnimator_mounted /\ CharacterAnimator_renderContent(CharacterAnimator) = view

CharacterAnimatorInput_keep(value) ==
    CharacterAnimatorInput' =
        IF CharacterAnimator_renderContent(CharacterAnimator') = "input"
        THEN value ELSE CharacterAnimatorInputInit

CharacterAnimator_frame == UNCHANGED <<appVars, fsVars, brVars, caVars>>

\* A handler of an unmounted component sets no state.
CharacterAnimator_set(op, value) ==
    CharacterAnimator' = IF op.mounted THEN value ELSE CharacterAnimator

\* The mount effect: checkHasApiKey().then(...)
CharacterAnimator_hasKeyResolved ==
    /\ \E op \in Suspended, hasKey \in BOOLEAN :
          /\ op.h = "CharacterAnimator.useEffect"
          /\ CharacterAnimator' = [CharacterAnimator EXCEPT
                 !.apiKeyStatus = IF hasKey THEN "selected" ELSE "not-selected"]
          /\ pending' = Resume(op)
    /\ CharacterAnimatorInput_keep(CharacterAnimatorInput)
    /\ CharacterAnimator_frame

\* handleSelectKey, up to its await of openSelectKey.
CharacterAnimator_handleSelectKey ==
    /\ CharacterAnimator_shows("not-selected")
    /\ CanSuspend
    /\ pending' = Suspend([h |-> "CharacterAnimator.handleSelectKey",
                           pc |-> "openSelectKey", stale |-> FALSE, mounted |-> TRUE,
                           selection |-> "open"])
    /\ UNCHANGED <<CharacterAnimator, CharacterAnimatorInput>>
    /\ CharacterAnimator_frame

\* openSelectKey settles: the host's dialog closes with a credential chosen
\* or with none, or there is no host capability and the function only logs.
\* Either way its promise resolves.
Selections == {"chosen", "dismissed", "unavailable"}
openSelectKey_resolved ==
    /\ \E op \in Suspended, selection \in Selections :
          /\ op.h = "CharacterAnimator.handleSelectKey"
          /\ op.pc = "openSelectKey"
          /\ pending' = Replace(op, [op EXCEPT !.pc = "setApiKeyStatus",
                                               !.selection = selection])
    /\ UNCHANGED <<CharacterAnimator, CharacterAnimatorInput>>
    /\ CharacterAnimator_frame

\* handleSelectKey after its await.
CharacterAnimator_selectKeyResolved ==
    /\ \E op \in Suspended :
          /\ op.h = "CharacterAnimator.handleSelectKey"
          /\ op.pc = "setApiKeyStatus"
          /\ CharacterAnimator' = [CharacterAnimator EXCEPT !.apiKeyStatus = "selected"]
          /\ pending' = Resume(op)
    /\ CharacterAnimatorInput_keep(CharacterAnimatorInput)
    /\ CharacterAnimator_frame

CharacterAnimatorInput_handleCharacterImageChange ==
    /\ CharacterAnimator_shows("input")
    /\ \E file \in SourceFiles :
          CharacterAnimatorInput' = [CharacterAnimatorInput EXCEPT !.characterImage = file]
    /\ UNCHANGED <<CharacterAnimator, pending>>
    /\ CharacterAnimator_frame

CharacterAnimatorInput_removeCharacterImage ==
    /\ CharacterAnimator_shows("input")
    /\ CharacterAnimatorInput.characterImage # NoFile
    /\ CharacterAnimatorInput' = [CharacterAnimatorInput EXCEPT !.characterImage = NoFile]
    /\ UNCHANGED <<CharacterAnimator, pending>>
    /\ CharacterAnimator_frame

CharacterAnimatorInput_setMotion ==
    /\ CharacterAnimator_shows("input")
    /\ \E text \in Motions :
          /\ text # CharacterAnimatorInput.motion
          /\ CharacterAnimatorInput' = [CharacterAnimatorInput EXCEPT !.motion = text]
    /\ UNCHANGED <<CharacterAnimator, pending>>
    /\ CharacterAnimator_frame

CharacterAnimatorInput_submitGuardMutNoTrim ==
    /\ CharacterAnimatorInput.characterImage # NoFile
    /\ CharacterAnimatorInput.motion # ""
    /\ ~CharacterAnimator.isLoading
CharacterAnimatorInput_submitGuard ==
    /\ CharacterAnimatorInput.characterImage # NoFile
    /\ Trim(CharacterAnimatorInput.motion) # ""
    /\ ~CharacterAnimator.isLoading
CharacterAnimatorInput_handleSubmit ==
    /\ CharacterAnimator_shows("input")
    /\ CharacterAnimatorInput_submitGuard
    /\ CanSuspend
    /\ pending' = Suspend([h |-> "CharacterAnimatorInput.handleSubmit",
                           pc |-> "fileToImageFile", stale |-> FALSE, mounted |-> TRUE,
                           characterImage |-> CharacterAnimatorInput.characterImage])
    /\ UNCHANGED <<CharacterAnimator, CharacterAnimatorInput>>
    /\ CharacterAnimator_frame

CharacterAnimatorInput_readFailed ==
    /\ \E op \in Suspended :
          /\ op.h = "CharacterAnimatorInput.handleSubmit"
          /\ pending' = Resume(op)
    /\ UNCHANGED <<CharacterAnimator, CharacterAnimatorInput>>
    /\ CharacterAnimator_frame

\* handleAnimate up to its await of animateCharacter, and animateCharacter up
\* to its await of generateVideos.
CharacterAnimator_handleAnimate(s, characterImage) ==
    [s EXCEPT !.isLoading = TRUE, !.error = "null", !.resultUrl = NoUrl,
              !.originalCharacterUrl = DataUrl(characterImage)]

CharacterAnimatorInput_onAnimate ==
    /\ \E op \in Suspended :
          /\ op.h = "CharacterAnimatorInput.handleSubmit"
          /\ CharacterAnimator_set(op, CharacterAnimator_handleAnimate(
                 CharacterAnimator, fileToImageFile(op.characterImage)))
          /\ pending' = Replace(op,
                 [h |-> "CharacterAnimator.handleAnimate", pc |-> "generateVideos",
                  stale |-> op.stale, mounted |-> op.mounted,
                  originalUrl |-> DataUrl(fileToImageFile(op.characterImage)),
                  done |-> FALSE, waits |-> 0, queries |-> 0,
                  response |-> [statusText |-> "", body |-> ""]])
    /\ CharacterAnimatorInput_keep(CharacterAnimatorInput)
    /\ CharacterAnimator_frame

\* The catch and finally of handleAnimate.
CharacterAnimator_failed(s, message) ==
    [s EXCEPT !.error = OrDefault(message, "An unknown error occurred during animation."),
              !.isLoading = FALSE]

\* animateCharacter after a report of the operation: the loop goes on while
\* the operation is not done, the download link is read when it is.
animateCharacter_reportedMutGivesUp(op, next, operation) ==
    IF ~operation.done /\ next.queries >= 1
    THEN /\ pending' = Resume(op)
         /\ UNCHANGED CharacterAnimator
    ELSE IF ~operation.done
    THEN /\ pending' = Replace(op, [next EXCEPT !.pc = "setTimeout"])
         /\ UNCHANGED CharacterAnimator
    ELSE IF operation.uri
    THEN /\ pending' = Replace(op, [next EXCEPT !.pc = "fetch"])
         /\ UNCHANGED CharacterAnimator
    ELSE /\ pending' = Resume(op)
         /\ CharacterAnimator_set(op, CharacterAnimator_failed(CharacterAnimator,
                "Video generation failed to produce a download link."))
animateCharacter_reportedMutNoWait(op, next, operation) ==
    IF ~operation.done
    THEN /\ pending' = Replace(op, [next EXCEPT !.pc = "getVideosOperation"])
         /\ UNCHANGED CharacterAnimator
    ELSE IF operation.uri
    THEN /\ pending' = Replace(op, [next EXCEPT !.pc = "fetch"])
         /\ UNCHANGED CharacterAnimator
    ELSE /\ pending' = Resume(op)
         /\ CharacterAnimator_set(op, CharacterAnimator_failed(CharacterAnimator,
                "Video generation failed to produce a download link."))
animateCharacter_reported(op, next, operation) ==
    IF ~operation.done
    THEN /\ pending' = Replace(op, [next EXCEPT !.pc = "setTimeout"])
         /\ UNCHANGED CharacterAnimator
    ELSE IF operation.uri
    THEN /\ pending' = Replace(op, [next EXCEPT !.pc = "fetch"])
         /\ UNCHANGED CharacterAnimator
    ELSE /\ pending' = Resume(op)
         /\ CharacterAnimator_set(op, CharacterAnimator_failed(CharacterAnimator,
                "Video generation failed to produce a download link."))

animateCharacter_generateVideosResolved ==
    /\ geminiService.apiKey
    /\ \E op \in Suspended, operation \in Operations :
          /\ op.pc = "generateVideos"
          /\ animateCharacter_reported(op, [op EXCEPT !.done = operation.done], operation)
    /\ CharacterAnimatorInput_keep(CharacterAnimatorInput)
    /\ CharacterAnimator_frame

\* setTimeout(resolve, 10000) fired.
animateCharacter_timeout ==
    /\ \E op \in Suspended :
          /\ op.pc = "setTimeout"
          /\ pending' = Replace(op, [op EXCEPT !.pc = "getVideosOperation", !.waits = @ + 1])
    /\ UNCHANGED <<CharacterAnimator, CharacterAnimatorInput>>
    /\ CharacterAnimator_frame

animateCharacter_getVideosOperationResolved ==
    /\ \E op \in Suspended, operation \in Operations :
          /\ op.pc = "getVideosOperation"
          /\ operation.done \/ op.queries + 1 < MaxPolls
          /\ animateCharacter_reported(
                 op, [op EXCEPT !.done = operation.done, !.queries = @ + 1], operation)
    /\ CharacterAnimatorInput_keep(CharacterAnimatorInput)
    /\ CharacterAnimator_frame

\* animateCharacter threw: no credential, or a rejected backend call.
animateCharacter_rejected ==
    /\ \E op \in Suspended, message \in Rejections(geminiService, AnimationFailures,
                                 "API_KEY environment variable is not configured.") :
          /\ op.pc \in {"generateVideos", "getVideosOperation"}
          /\ CharacterAnimator_set(op, CharacterAnimator_failed(CharacterAnimator, message))
          /\ pending' = Resume(op)
    /\ CharacterAnimatorInput_keep(CharacterAnimatorInput)
    /\ CharacterAnimator_frame

\* fetch(videoUrl & key) resolved with a response.
CharacterAnimator_fetchOk ==
    /\ \E op \in Suspended :
          /\ op.pc = "fetch"
          /\ pending' = Replace(op, [op EXCEPT !.pc = "response.blob"])
    /\ UNCHANGED <<CharacterAnimator, CharacterAnimatorInput>>
    /\ CharacterAnimator_frame

CharacterAnimator_fetchNotOk ==
    /\ \E op \in Suspended, response \in ErrorResponses :
          /\ op.pc = "fetch"
          /\ pending' = Replace(op, [op EXCEPT !.pc = "response.text", !.response = response])
    /\ UNCHANGED <<CharacterAnimator, CharacterAnimatorInput>>
    /\ CharacterAnimator_frame

\* fetch, response.text() or response.blob() rejected.
CharacterAnimator_downloadRejected ==
    /\ \E op \in Suspended, message \in {"Failed to fetch", ""} :
          /\ op.pc \in {"fetch", "response.text", "response.blob"}
          /\ CharacterAnimator_set(op, CharacterAnimator_failed(CharacterAnimator, message))
          /\ pending' = Resume(op)
    /\ CharacterAnimatorInput_keep(CharacterAnimatorInput)
    /\ CharacterAnimator_frame

CharacterAnimator_downloadFailedMutGeneric(s, response) ==
    CharacterAnimator_failed(s,
        "Failed to download video: " \o response.statusText \o " - " \o response.body)
\* The branch of a response that is not ok, through catch and finally.
CharacterAnimator_downloadFailed(s, response) ==
    IF Includes(response.body, VEO_API_KEY_ERROR_MESSAGE)
    THEN CharacterAnimator_failed([s EXCEPT !.apiKeyStatus = "not-selected"],
             "API key is invalid. Please select a valid key.")
    ELSE CharacterAnimator_failed(s,
             "Failed to download video: " \o response.statusText \o " - " \o response.body)

\* response.text() resolved for the handler op.
CharacterAnimator_errorTextRead(op) ==
    /\ op \in Suspended
    /\ op.pc = "response.text"
    /\ CharacterAnimator_set(op, CharacterAnimator_downloadFailed(CharacterAnimator, op.response))
    /\ pending' = Resume(op)
    /\ CharacterAnimatorInput_keep(CharacterAnimatorInput)
    /\ CharacterAnimator_frame

CharacterAnimator_textResolved ==
    \E op \in Suspended : CharacterAnimator_errorTextRead(op)

\* response.blob() resolved: the result is shown and put in the library.
CharacterAnimator_blobResolved ==
    /\ LibraryHasRoom
    /\ \E op \in Suspended, blobUrl \in Videos :
          /\ op.pc = "response.blob"
          /\ CharacterAnimator_set(op, [CharacterAnimator EXCEPT
                 !.resultUrl = blobUrl, !.isLoading = FALSE])
          /\ libraryCreations' = handleCreationComplete(
                 [type |-> "Character Animation", originalUrl |-> NoUrl,
                  imageUrl |-> op.originalUrl, videoUrl |-> blobUrl])
          /\ pending' = Resume(op)
    /\ CharacterAnimatorInput_keep(CharacterAnimatorInput)
    /\ UNCHANGED <<geminiService, imageForTool, initialImageFile, currentTool, sessionStart, opened, fsVars, brVars, caVars>>

\* handleStartOver: "Try Again" of the error branch, "Animate Another" of the
\* result branch.
CharacterAnimator_handleStartOver ==
    /\ CharacterAnimator_mounted
    /\ CharacterAnimator_renderContent(CharacterAnimator) \in {"error", "result"}
    /\ CharacterAnimator' = [CharacterAnimator EXCEPT
           !.isLoading = FALSE, !.error = "null", !.resultUrl = NoUrl,
           !.originalCharacterUrl = NoUrl]
    /\ CharacterAnimatorInput_keep(CharacterAnimatorInput)
    /\ sessionStart' = Len(libraryCreations)
    /\ pending' = Abandon(pending)
    /\ UNCHANGED <<geminiService, imageForTool, initialImageFile, currentTool, libraryCreations, opened, fsVars, brVars, caVars>>

(***************************************************************************)
(* App router                                                              *)
(***************************************************************************)
Tools == {"creative-assistant", "face-swap", "background-remover"}

\* A menu button: setCurrentTool(tool); the tool's component mounts.
App_openTool ==
    /\ currentTool = "menu"
    /\ opened < MaxOpened
    /\ \E tool \in Tools :
          /\ currentTool' = tool
          /\ pending' = useEffect_initialImage(imageForTool, tool)
    /\ opened' = opened + 1
    /\ sessionStart' = Len(libraryCreations)
    /\ UNCHANGED <<geminiService, imageForTool, initialImageFile, libraryCreations, fsVars, brVars, caVars, anVars>>

\* The character-animation tool is opened from the menu like the others; its
\* component starts the credential check when it mounts.
App_openCharacterAnimator ==
    /\ currentTool = "menu"
    /\ opened < MaxOpened
    /\ currentTool' = "character-animator"
    /\ opened' = opened + 1
    /\ sessionStart' = Len(libraryCreations)
    /\ pending' = Suspend([h |-> "CharacterAnimator.useEffect", pc |-> "checkHasApiKey",
                           stale |-> FALSE, mounted |-> TRUE])
    /\ UNCHANGED <<geminiService, imageForTool, initialImageFile, libraryCreations, fsVars, brVars, caVars, anVars>>

\* "Back to Menu": the tool's component unmounts; its handlers still suspended
\* can only set state of the unmounted component, which has no effect.
FaceSwap_onBack ==
    /\ FaceSwap_mounted
    /\ currentTool' = "menu"
    /\ FaceSwap' = FaceSwapInit
    /\ FaceSwapInput' = FaceSwapInputInit
    /\ pending' = Detached(pending)
    /\ sessionStart' = Len(libraryCreations)
    /\ initialImageFile' = [initialImageFile EXCEPT !["face-swap"] = NoFile]
    /\ UNCHANGED <<geminiService, imageForTool, libraryCreations, opened, brVars, caVars, anVars>>

BackgroundRemover_onBack ==
    /\ BackgroundRemover_mounted
    /\ currentTool' = "menu"
    /\ BackgroundRemover' = BackgroundRemoverInit
    /\ BackgroundRemoverInput' = BackgroundRemoverInputInit
    /\ pending' = Detached(pending)
    /\ sessionStart' = Len(libraryCreations)
    /\ initialImageFile' = [initialImageFile EXCEPT !["background-remover"] = NoFile]
    /\ UNCHANGED <<geminiService, imageForTool, libraryCreations, opened, fsVars, caVars, anVars>>

\* CreativeAssistant renders its Back button in the main view only.
CreativeAssistant_onBack ==
    /\ CreativeAssistant_mounted
    /\ CreativeAssistant_render(CreativeAssistant) = "main"
    /\ currentTool' = "menu"
    /\ CreativeAssistant' = CreativeAssistantInit
    /\ TopicInput' = TopicInputInit
    /\ pending' = EmptyBag
    /\ sessionStart' = Len(libraryCreations)
    /\ UNCHANGED <<geminiService, imageForTool, initialImageFile, libraryCreations, opened, fsVars, brVars, anVars>>

\* The handlers of an unmounted CharacterAnimator that still reach
\* onCreationComplete, which is the App's.
Unmounted(bag) ==
    LET kept == {op \in BagToSet(bag) :
                    op.h \in {"CharacterAnimatorInput.handleSubmit",
                              "CharacterAnimator.handleAnimate"}}
        gone(o) == [o EXCEPT !.mounted = FALSE, !.stale = TRUE]
    IN [op \in {gone(o) : o \in kept} |->
           BagCardinality([o \in {k \in kept : gone(k) = op} |-> bag[o]])]

CharacterAnimator_onBack ==
    /\ CharacterAnimator_mounted
    /\ currentTool' = "menu"
    /\ CharacterAnimator' = CharacterAnimatorInit
    /\ CharacterAnimatorInput' = CharacterAnimatorInputInit
    /\ pending' = Unmounted(pending)
    /\ sessionStart' = Len(libraryCreations)
    /\ UNCHANGED <<geminiService, imageForTool, initialImageFile, libraryCreations, opened, fsVars, brVars, caVars>>

\* The menu's "View Library" button, and the library's "Back to Menu".
App_openLibrary ==
    /\ currentTool = "menu"
    /\ currentTool' = "library"
    /\ UNCHANGED <<libraryCreations, sessionStart, opened, geminiService, imageForTool,
                   initialImageFile, fsVars, brVars, caVars, anVars, pending>>

Library_onBack ==
    /\ currentTool = "library"
    /\ currentTool' = "menu"
    /\ UNCHANGED <<libraryCreations, sessionStart, opened, geminiService, imageForTool,
                   initialImageFile, fsVars, brVars, caVars, anVars, pending>>

\* "Use in ..." on a library entry: handleUseImageInTool records the handoff
\* and routes to the target tool, which mounts and starts loading the image.
Library_onUseImage ==
    /\ currentTool = "library"
    /\ opened < MaxOpened
    /\ \E i \in DOMAIN libraryCreations, tool \in HandoffTools :
          /\ imageForTool' = handleUseImageInTool(libraryCreations[i].imageUrl, tool)
          /\ currentTool' = tool
          /\ pending' = useEffect_initialImage(imageForTool', tool)
    /\ opened' = opened + 1
    /\ sessionStart' = Len(libraryCreations)
    /\ UNCHANGED <<libraryCreations, geminiService, initialImageFile,
                   fsVars, brVars, caVars, anVars>>

\* A receiving tool opened again from the menu.
App_reopenTool ==
    /\ currentTool = "menu"
    /\ opened \in MaxOpened .. MaxSwitches - 1
    /\ \E tool \in HandoffTools :
          /\ currentTool' = tool
          /\ pending' = useEffect_initialImage(imageForTool, tool)
    /\ opened' = opened + 1
    /\ sessionStart' = Len(libraryCreations)
    /\ UNCHANGED <<libraryCreations, geminiService, imageForTool, initialImageFile,
                   fsVars, brVars, caVars, anVars>>

\* The App renders again while the handoff is pending (a toast appears or is
\* dismissed, the library changes): clearImageForTool and addToast are new
\* functions at every render and the effect depends on them, so the effect of
\* the mounted tool runs again and starts another load of the same image.
App_render ==
    /\ currentTool \in HandoffTools
    /\ renderTool_initialImage(imageForTool, currentTool) # NoUrl
    /\ CanSuspend
    /\ pending' = useEffect_initialImage(imageForTool, currentTool)
    /\ UNCHANGED <<appVars, fsVars, brVars, caVars, anVars>>

\* urlToImageFile resolved: a mounted tool keeps the file, its input form (if
\* rendered) takes it as its image, and finally the handoff is cleared.  The
\* load of an unmounted tool only clears the handoff.
useEffect_initialImageResolved ==
    \E op \in Suspended :
        /\ op.h = "useEffect(initialImage)"
        /\ LET file == urlToImageFile(op.url)
           IN /\ initialImageFile' = IF op.mounted
                                     THEN [initialImageFile EXCEPT ![op.tool] = file]
                                     ELSE initialImageFile
              /\ FaceSwapInput' = IF op.mounted /\ op.tool = "face-swap"
                                     /\ FaceSwap_renderContent(FaceSwap) = "input"
                                  THEN [FaceSwapInput EXCEPT !.sourceImage = file]
                                  ELSE FaceSwapInput
              /\ BackgroundRemoverInput' =
                     IF op.mounted /\ op.tool = "background-remover"
                        /\ BackgroundRemover_renderContent(BackgroundRemover) = "input"
                     THEN [BackgroundRemoverInput EXCEPT !.image = file]
                     ELSE BackgroundRemoverInput
        /\ imageForTool' = NoImageForTool
        /\ pending' = Resume(op)
        /\ UNCHANGED <<currentTool, libraryCreations, sessionStart, opened, geminiService,
                       FaceSwap, BackgroundRemover, caVars, anVars>>

\* urlToImageFile rejected: the failure is reported and the handoff cleared.
useEffect_initialImageRejected ==
    \E op \in Suspended :
        /\ op.h = "useEffect(initialImage)"
        /\ imageForTool' = NoImageForTool
        /\ pending' = Resume(op)
        /\ UNCHANGED <<currentTool, libraryCreations, sessionStart, opened, geminiService,
                       initialImageFile, fsVars, brVars, caVars, anVars>>

Init ==
    /\ currentTool = "menu"
    /\ libraryCreations = <<>>
    /\ FaceSwap = FaceSwapInit
    /\ FaceSwapInput = FaceSwapInputInit
    /\ BackgroundRemover = BackgroundRemoverInit
    /\ BackgroundRemoverInput = BackgroundRemoverInputInit
    /\ CreativeAssistant = CreativeAssistantInit
    /\ TopicInput = TopicInputInit
    /\ CharacterAnimator = CharacterAnimatorInit
    /\ CharacterAnimatorInput = CharacterAnimatorInputInit
    /\ pending = EmptyBag
    /\ sessionStart = 0
    /\ opened = 0
    /\ geminiService \in GeminiServices
    /\ imageForTool = NoImageForTool
    /\ initialImageFile = [tool \in HandoffTools |-> NoFile]

FaceSwap_Next ==
    \/ FaceSwapInput_handleSourceImageChange
    \/ FaceSwapInput_handleFaceImageChange
    \/ FaceSwapInput_removeSourceImage
    \/ FaceSwapInput_removeFaceImage
    \/ FaceSwapInput_handleSubmit
    \/ FaceSwapInput_sourceRead
    \/ FaceSwapInput_readFailed
    \/ FaceSwapInput_onGenerate
    \/ FaceSwap_performFaceSwapResolved
    \/ FaceSwap_performFaceSwapRejected
    \/ FaceSwap_handleSave
    \/ FaceSwap_openEditor
    \/ FaceSwap_closeEditor
    \/ FaceSwap_editorSave
    \/ FaceSwap_handleUndo
    \/ FaceSwap_handleRedo
    \/ FaceSwap_handleStartOver
    \/ FaceSwap_onBack

BackgroundRemover_Next ==
    \/ BackgroundRemoverInput_handleImageChange
    \/ BackgroundRemoverInput_removeImage
    \/ BackgroundRemoverInput_handleSubmit
    \/ BackgroundRemoverInput_readFailed
    \/ BackgroundRemoverInput_onGenerate
    \/ BackgroundRemover_removalResolved
    \/ BackgroundRemover_removalRejected
    \/ BackgroundRemover_setBackgroundPrompt
    \/ BackgroundRemover_handleGenerateBackground
    \/ BackgroundRemover_handleUploadBackground
    \/ BackgroundRemover_uploadRead
    \/ BackgroundRemover_handleGreenScreen
    \/ BackgroundRemover_compositeResolved
    \/ BackgroundRemover_compositeRejected
    \/ BackgroundRemover_handleSave
    \/ BackgroundRemover_handleSaveCutout
    \/ BackgroundRemover_openEditor
    \/ BackgroundRemover_closeEditor
    \/ BackgroundRemover_editorSave
    \/ BackgroundRemover_handleUndo
    \/ BackgroundRemover_handleRedo
    \/ BackgroundRemover_handleStartOver
    \/ BackgroundRemover_tryAgain
    \/ BackgroundRemover_onBack

CreativeAssistant_Next ==
    \/ TopicInput_setGenre
    \/ TopicInput_setGenerateLyricsFlag
    \/ TopicInput_handleSubmitPrompt
    \/ CreativeAssistant_promptResolved
    \/ CreativeAssistant_promptRejected
    \/ TopicInput_handleSubmitContent
    \/ CreativeAssistant_imageResolved
    \/ CreativeAssistant_imageRejected
    \/ CreativeAssistant_textChunk
    \/ CreativeAssistant_textEnd
    \/ CreativeAssistant_textFailed
    \/ CreativeAssistant_lyricsChunk
    \/ CreativeAssistant_lyricsEnd
    \/ CreativeAssistant_lyricsFailed
    \/ TopicInput_setIterationPrompt
    \/ TopicInput_handleSubmitIteration
    \/ CreativeAssistant_iterateResolved
    \/ CreativeAssistant_iterateRejected
    \/ TopicInput_onGoToLatest
    \/ CreativeAssistant_setCurrentHistoryIndex
    \/ CreativeAssistant_openEditor
    \/ CreativeAssistant_closeEditor
    \/ CreativeAssistant_editorSave
    \/ CreativeAssistant_handleSaveToLibrary
    \/ TopicInput_resetAll
    \/ CreativeAssistant_handleStartOver
    \/ CreativeAssistant_onBack

CharacterAnimator_Next ==
    \/ CharacterAnimator_hasKeyResolved
    \/ CharacterAnimator_handleSelectKey
    \/ openSelectKey_resolved
    \/ CharacterAnimator_selectKeyResolved
    \/ CharacterAnimatorInput_handleCharacterImageChange
    \/ CharacterAnimatorInput_removeCharacterImage
    \/ CharacterAnimatorInput_setMotion
    \/ CharacterAnimatorInput_handleSubmit
    \/ CharacterAnimatorInput_readFailed
    \/ CharacterAnimatorInput_onAnimate
    \/ animateCharacter_generateVideosResolved
    \/ animateCharacter_timeout
    \/ animateCharacter_getVideosOperationResolved
    \/ animateCharacter_rejected
    \/ CharacterAnimator_fetchOk
    \/ CharacterAnimator_fetchNotOk
    \/ CharacterAnimator_downloadRejected
    \/ CharacterAnimator_textResolved
    \/ CharacterAnimator_blobResolved
    \/ CharacterAnimator_handleStartOver
    \/ CharacterAnimator_onBack

Next ==
    \/ App_openTool
    \/ App_openCharacterAnimator
    \/ FaceSwap_Next
    \/ BackgroundRemover_Next
    \/ CreativeAssistant_Next
    \/ CharacterAnimator_Next


\* Tool switching: back at the menu the user opens a tool again, the same one
\* or another.  The router mounts a fresh component; the library is the
\* App's and is passed on as it is.
App_switchTool ==
    /\ currentTool = "menu"
    /\ opened \in MaxOpened .. MaxSwitches - 1
    /\ \E tool \in Tools :
          /\ currentTool' = tool
          /\ pending' = useEffect_initialImage(imageForTool, tool)
    /\ opened' = opened + 1
    /\ sessionStart' = Len(libraryCreations)
    /\ UNCHANGED <<geminiService, imageForTool, initialImageFile, libraryCreations, fsVars, brVars, caVars, anVars>>

App_switchToCharacterAnimator ==
    /\ currentTool = "menu"
    /\ opened \in MaxOpened .. MaxSwitches - 1
    /\ currentTool' = "character-animator"
    /\ opened' = opened + 1
    /\ sessionStart' = Len(libraryCreations)
    /\ pending' = Suspend([h |-> "CharacterAnimator.useEffect", pc |-> "checkHasApiKey",
                           stale |-> FALSE, mounted |-> TRUE])
    /\ UNCHANGED <<geminiService, imageForTool, initialImageFile, libraryCreations, fsVars, brVars, caVars, anVars>>

NextSwitching ==
    \/ Next
    \/ App_switchTool
    \/ App_switchToCharacterAnimator

\* The program with the user free to go from one tool to another.
SpecSwitching == Init /\ [][NextSwitching]_vars
\* The animate handlers in flight, of a mounted CharacterAnimator or not.
CharacterAnimator_jobs ==
    {op \in Suspended : op.h \in {"CharacterAnimatorInput.handleSubmit",
                                  "CharacterAnimator.handleAnimate"}}

\* The continuations of an animate handler: every step in which its timer
\* fires or a promise it awaits settles.
CharacterAnimator_settles ==
    \/ CharacterAnimatorInput_readFailed
    \/ CharacterAnimatorInput_onAnimate
    \/ animateCharacter_generateVideosResolved
    \/ animateCharacter_timeout
    \/ animateCharacter_getVideosOperationResolved
    \/ animateCharacter_rejected
    \/ CharacterAnimator_fetchOk
    \/ CharacterAnimator_fetchNotOk
    \/ CharacterAnimator_downloadRejected
    \/ CharacterAnimator_textResolved
    \/ CharacterAnimator_blobResolved

\* A session of the CharacterAnimator in which the user submits an animation
\* only when no animate handler is in flight.
NextPolling ==
    \/ App_openCharacterAnimator
    \/ CharacterAnimator_hasKeyResolved
    \/ CharacterAnimator_handleSelectKey
    \/ openSelectKey_resolved
    \/ CharacterAnimator_selectKeyResolved
    \/ CharacterAnimatorInput_handleCharacterImageChange
    \/ CharacterAnimatorInput_removeCharacterImage
    \/ CharacterAnimatorInput_setMotion
    \/ CharacterAnimator_jobs = {} /\ CharacterAnimatorInput_handleSubmit
    \/ CharacterAnimatorInput_readFailed
    \/ CharacterAnimatorInput_onAnimate
    \/ animateCharacter_generateVideosResolved
    \/ animateCharacter_timeout
    \/ animateCharacter_getVideosOperationResolved
    \/ animateCharacter_rejected
    \/ CharacterAnimator_fetchOk
    \/ CharacterAnimator_fetchNotOk
    \/ CharacterAnimator_downloadRejected
    \/ CharacterAnimator_textResolved
    \/ CharacterAnimator_blobResolved
    \/ CharacterAnimator_handleStartOver
    \/ CharacterAnimator_onBack

\* The browser fires every timer and every request of an animate handler is
\* answered or fails: the handler that waits for one of them is resumed.
\* With MaxPolls the backend reports the operation done after finitely many
\* status queries.
SpecPolling ==
    Init /\ [][NextPolling]_vars /\ WF_vars(CharacterAnimator_settles)

\* A session that starts in the library view with one saved creation (the
\* state a first workflow session leaves once its result was saved and the
\* user went from the menu to the library; opened counts from here), in which
\* the user hands the creation to a receiving tool.
LibraryEntries ==
    {[type |-> "Jackson's Creative AI", originalUrl |-> NoUrl,
      imageUrl |-> imageUrl, videoUrl |-> NoUrl] : imageUrl \in Artifacts}

InitHandoff ==
    /\ currentTool = "library"
    /\ libraryCreations \in {<<item>> : item \in LibraryEntries}
    /\ FaceSwap = FaceSwapInit
    /\ FaceSwapInput = FaceSwapInputInit
    /\ BackgroundRemover = BackgroundRemoverInit
    /\ BackgroundRemoverInput = BackgroundRemoverInputInit
    /\ CreativeAssistant = CreativeAssistantInit
    /\ TopicInput = TopicInputInit
    /\ CharacterAnimator = CharacterAnimatorInit
    /\ CharacterAnimatorInput = CharacterAnimatorInputInit
    /\ pending = EmptyBag
    /\ sessionStart = 1
    /\ opened = 0
    /\ geminiService \in GeminiServices
    /\ imageForTool = NoImageForTool
    /\ initialImageFile = [tool \in HandoffTools |-> NoFile]

NextHandoff ==
    \/ Library_onUseImage
    \/ Library_onBack
    \/ App_openLibrary
    \/ App_reopenTool
    \/ App_render
    \/ useEffect_initialImageResolved
    \/ useEffect_initialImageRejected
    \/ FaceSwap_Next
    \/ BackgroundRemover_Next

SpecHandoff == InitHandoff /\ [][NextHandoff]_vars

\* The CreativeAssistant with the source image, the assets and the aspect
\* ratio of its prompt form in the user's hands.
TopicInput_arranges ==
    \/ TopicInput_handleSourceImageChange
    \/ TopicInput_handleRemoveSourceImage
    \/ TopicInput_handleAssetChange
    \/ TopicInput_toggleAssetSelection
    \/ TopicInput_removeAsset
    \/ TopicInput_setAspectRatio
    \/ TopicInput_randomizeControls

TopicInput_settles ==
    \/ TopicInput_sourceImageRead
    \/ TopicInput_sourceImageReadFailed
    \/ TopicInput_assetsRead
    \/ TopicInput_assetsReadFailed

App_openCreativeAssistant ==
    /\ App_openTool
    /\ currentTool' = "creative-assistant"

\* The generation pipeline of the assistant: prompt, content, iteration and
\* Start Over.
CreativeAssistant_drafts ==
    \/ TopicInput_handleSubmitPrompt
    \/ CreativeAssistant_promptResolved
    \/ CreativeAssistant_promptRejected
    \/ TopicInput_handleSubmitContent
    \/ CreativeAssistant_imageResolved
    \/ CreativeAssistant_imageRejected
    \/ CreativeAssistant_textChunk
    \/ CreativeAssistant_textEnd
    \/ CreativeAssistant_textFailed
    \/ TopicInput_setIterationPrompt
    \/ TopicInput_handleSubmitIteration
    \/ CreativeAssistant_iterateResolved
    \/ CreativeAssistant_iterateRejected

CreativeAssistant_generates ==
    \/ CreativeAssistant_drafts
    \/ TopicInput_resetAll
    \/ CreativeAssistant_handleStartOver

NextAssets ==
    \/ App_openCreativeAssistant
    \/ CreativeAssistant_generates
    \/ TopicInput_arranges
    \/ TopicInput_settles

\* The deployment with its key configured.
InitAssets == Init /\ geminiService.apiKey

SpecAssets == InitAssets /\ [][NextAssets]_vars

\* Every path on which a workflow sends a request to the backend: the two
\* image workflows from their forms to the settled call, and one pass of the
\* assistant from the arrangement of its images through prompt, content
\* with both streams, and iteration.
FaceSwap_requests ==
    \/ FaceSwapInput_handleSourceImageChange
    \/ FaceSwapInput_handleFaceImageChange
    \/ FaceSwapInput_handleSubmit
    \/ FaceSwapInput_sourceRead
    \/ FaceSwapInput_readFailed
    \/ FaceSwapInput_onGenerate
    \/ FaceSwap_performFaceSwapResolved
    \/ FaceSwap_performFaceSwapRejected
    \/ FaceSwap_handleStartOver

BackgroundRemover_requests ==
    \/ BackgroundRemoverInput_handleImageChange
    \/ BackgroundRemoverInput_handleSubmit
    \/ BackgroundRemoverInput_readFailed
    \/ BackgroundRemoverInput_onGenerate
    \/ BackgroundRemover_removalResolved
    \/ BackgroundRemover_removalRejected
    \/ BackgroundRemover_setBackgroundPrompt
    \/ BackgroundRemover_handleGenerateBackground
    \/ BackgroundRemover_handleUploadBackground
    \/ BackgroundRemover_uploadRead
    \/ BackgroundRemover_compositeResolved
    \/ BackgroundRemover_compositeRejected
    \/ BackgroundRemover_handleStartOver

CreativeAssistant_writesLyrics ==
    \/ TopicInput_setGenre
    \/ TopicInput_setGenerateLyricsFlag
    \/ CreativeAssistant_lyricsChunk
    \/ CreativeAssistant_lyricsEnd
    \/ CreativeAssistant_lyricsFailed

NextRequests ==
    \/ App_openTool
    \/ FaceSwap_requests
    \/ BackgroundRemover_requests
    \/ CreativeAssistant_drafts
    \/ CreativeAssistant_writesLyrics
    \/ TopicInput_arranges
    \/ TopicInput_settles

SpecRequests == InitAssets /\ [][NextRequests]_vars

\* The assistant with two handlers in flight.  The user submitted an
\* iteration on a first result, started over while it was in flight, drafted
\* a prompt and submitted the content generation: the abandoned iteration
\* and the new generation both await generateImage.  The iterate form stays
\* rendered during an iteration, with its Start Over button, so the session
\* is the program's own; a second handler is what it takes to get here.
CreativeAssistant_overlap(detailedPrompt, imageUrl, iterationPrompt) ==
    LET drafted == [CreativeAssistantInit EXCEPT
                       !.stage = "content", !.detailedPrompt = detailedPrompt]
        iterated == [CreativeAssistantInit EXCEPT
                        !.stage = "iterate", !.imageHistory = <<imageUrl>>]
    IN [state |-> [drafted EXCEPT !.isLoading = TRUE],
        handlers |->
            SetToBag({CreativeAssistant_handleGenerateContent(drafted),
                      [h |-> "CreativeAssistant.handleIterateImage",
                       pc |-> "generateImage", stale |-> TRUE,
                       imageHistory |-> iterated.imageHistory,
                       request |-> CreativeAssistant_iterateRequest(
                                       iterated, iterationPrompt)]})]

InitOverlap ==
    /\ currentTool = "creative-assistant"
    /\ libraryCreations = <<>>
    /\ FaceSwap = FaceSwapInit
    /\ FaceSwapInput = FaceSwapInputInit
    /\ BackgroundRemover = BackgroundRemoverInit
    /\ BackgroundRemoverInput = BackgroundRemoverInputInit
    /\ \E detailedPrompt \in DetailedPrompts, imageUrl \in Artifacts,
          iterationPrompt \in {p \in IterationPrompts : Trim(p) # ""} :
          LET session == CreativeAssistant_overlap(detailedPrompt, imageUrl, iterationPrompt)
          IN /\ CreativeAssistant = session.state
             /\ pending = session.handlers
    /\ TopicInput = TopicInputInit
    /\ CharacterAnimator = CharacterAnimatorInit
    /\ CharacterAnimatorInput = CharacterAnimatorInputInit
    /\ sessionStart = 0
    /\ opened = 1
    /\ geminiService \in {service \in GeminiServices : service.apiKey}
    /\ imageForTool = NoImageForTool
    /\ initialImageFile = [tool \in HandoffTools |-> NoFile]

\* The continuations of the assistant's handlers: every backend call, and
\* every chunk of a stream, settles.
CreativeAssistant_settles ==
    \/ CreativeAssistant_promptResolved
    \/ CreativeAssistant_promptRejected
    \/ CreativeAssistant_imageResolved
    \/ CreativeAssistant_imageRejected
    \/ CreativeAssistant_textChunk
    \/ CreativeAssistant_textEnd
    \/ CreativeAssistant_textFailed
    \/ CreativeAssistant_iterateResolved
    \/ CreativeAssistant_iterateRejected

NextOverlap ==
    \/ CreativeAssistant_generates
    \/ TopicInput_onGoToLatest

SpecOverlap ==
    InitOverlap /\ [][NextOverlap]_vars /\ WF_vars(CreativeAssistant_settles)

Spec == Init /\ [][Next]_vars

(***************************************************************************)
(* Properties                                                              *)
(***************************************************************************)
ImageWorkflows == {"face-swap", "background-remover", "creative-assistant"}

\* The entries the library received in the current workflow session, most
\* recent first.
SessionEntries == SubSeq(libraryCreations, 1, Len(libraryCreations) - sessionStart)
SavedInSession(type, imageUrl) ==
    \E i \in DOMAIN SessionEntries :
        SessionEntries[i].type = type /\ SessionEntries[i].imageUrl = imageUrl

CursorInRange(items, cursor) ==
    Len(items) > 0 => (0 <= cursor /\ cursor < Len(items))
CursorContract(items, cursor) ==
    /\ CursorInRange(items, cursor)
    /\ cursor = -1 <=> Len(items) = 0

AppendedTruncating(items, cursor, items2, cursor2) ==
    /\ Len(items2) = cursor + 2
    /\ SubSeq(items2, 1, cursor + 1) = SubSeq(items, 1, cursor + 1)
    /\ cursor2 = Len(items2) - 1
\* An append at the end of the history, wherever the cursor is.
AppendedAtEnd(items, items2, cursor2) ==
    /\ Len(items2) = Len(items) + 1
    /\ SubSeq(items2, 1, Len(items)) = items
    /\ cursor2 = Len(items2) - 1

FaceSwap_appendTruncates ==
    FaceSwap_editorSave =>
        AppendedTruncating(FaceSwap.editHistory, FaceSwap.editHistoryIndex,
                           FaceSwap'.editHistory, FaceSwap'.editHistoryIndex)
BackgroundRemover_appendTruncates ==
    BackgroundRemover_editorSave =>
        AppendedTruncating(BackgroundRemover.editHistory, BackgroundRemover.editHistoryIndex,
                           BackgroundRemover'.editHistory, BackgroundRemover'.editHistoryIndex)

\* C2, as stated: every edit-complete of FaceSwap, BackgroundRemover and
\* CreativeAssistant at (items, cursor) yields items[0..cursor] followed by the
\* new artifact, with the cursor on it.
C2_AppendTruncates ==
    [][/\ FaceSwap_appendTruncates
       /\ BackgroundRemover_appendTruncates
       /\ CreativeAssistant_editorSave =>
              AppendedTruncating(CreativeAssistant.imageHistory,
                                 CreativeAssistant.currentHistoryIndex,
                                 CreativeAssistant'.imageHistory,
                                 CreativeAssistant'.currentHistoryIndex)]_vars

\* C2, amended: edit-complete truncates the history at the cursor in FaceSwap
\* and BackgroundRemover; in CreativeAssistant it appends the new artifact at
\* the end of the whole history and discards nothing.  In all three the cursor
\* ends on the new artifact.
C2_AppendTruncatesAmended ==
    [][/\ FaceSwap_appendTruncates
       /\ BackgroundRemover_appendTruncates
       /\ CreativeAssistant_editorSave =>
              AppendedAtEnd(CreativeAssistant.imageHistory,
                            CreativeAssistant'.imageHistory,
                            CreativeAssistant'.currentHistoryIndex)]_vars

\* FaceSwap after an edit-complete that discarded an entry: an artifact saved
\* in this session is no longer in the two-entry history.
C2_Witness ==
    /\ FaceSwap_mounted
    /\ pending = EmptyBag
    /\ Len(FaceSwap.editHistory) = 2
    /\ FaceSwap.editHistoryIndex = 1
    /\ \E i \in DOMAIN SessionEntries :
          \A k \in DOMAIN FaceSwap.editHistory :
              FaceSwap.editHistory[k] # SessionEntries[i].imageUrl

\* C3, as stated: within a workflow session no artifact reference is in the
\* library twice, whatever the sequence of generate, edit, undo, redo and save.
C3_SaveIdempotent ==
    currentTool \in ImageWorkflows =>
        \A i, j \in DOMAIN SessionEntries :
            i # j => SessionEntries[i] # SessionEntries[j]

\* C4, as stated: the saved indicator of the artifact at the cursor is true
\* exactly when that artifact was saved to the library in this session.
C4_SavedFlagPerArtifact ==
    /\ FaceSwap_shows("result") =>
           (FaceSwap.isSaved <=> SavedInSession("Face Swap", FaceSwap_result(FaceSwap)))
    /\ BackgroundRemover_shows("result") =>
           (BackgroundRemover.isSaved <=>
                SavedInSession("Background Edit",
                               BackgroundRemover_finalResult(BackgroundRemover)))

\* The save actions of the workflows.
SaveStep ==
    \/ FaceSwap_handleSave
    \/ BackgroundRemover_handleSave
    \/ BackgroundRemover_handleSaveCutout
    \/ CreativeAssistant_handleSaveToLibrary

\* C5, as stated: the library changes only in a save step, and every save step
\* adds exactly one entry.
C5_EntriesOnlyFromSave ==
    [][/\ libraryCreations' # libraryCreations => SaveStep
       /\ SaveStep => Len(libraryCreations') = Len(libraryCreations) + 1]_vars

\* C5, amended: the library changes only in a save step or when an animation
\* completes (CharacterAnimator adds its result itself, it has no save
\* action); each of these steps adds exactly one entry, at the front.
C5_EntriesOnlyFromSaveAmended ==
    [][/\ libraryCreations' # libraryCreations =>
              SaveStep \/ CharacterAnimator_blobResolved
       /\ SaveStep \/ CharacterAnimator_blobResolved =>
              /\ Len(libraryCreations') = Len(libraryCreations) + 1
              /\ Tail(libraryCreations') = libraryCreations]_vars

\* A completed animation on screen and, put there by its handler, at the
\* front of the library.
C5_Witness ==
    /\ CharacterAnimator_shows("result")
    /\ Len(libraryCreations) > 0
    /\ libraryCreations[1].type = "Character Animation"
    /\ libraryCreations[1].videoUrl = CharacterAnimator.resultUrl

\* The handler op leaves Promise.all in this step with all the streams it
\* started ended: the step ends its last open stream.
CreativeAssistant_joined(op) ==
    /\ op.h = "CreativeAssistant.handleGenerateContent"
    /\ op.pc = "Promise.all"
    /\ pending' = Resume(op)
    /\ CreativeAssistant_startsLyrics(op) => op.lyrics # "idle"
    /\ \/ op.text = "open" /\ op.textSent = MaxChunks /\ op.lyrics \in {"done", "idle"}
       \/ op.lyrics = "open" /\ op.lyricsSent = MaxChunks /\ op.text = "done"

\* C6: stage becomes 'iterate' only in the step in which the last stream a
\* content handler started ends, the lyrics stream included when lyrics were
\* asked for with a genre other than 'None'.
C6_JoinSemantics ==
    [][(CreativeAssistant.stage # "iterate" /\ CreativeAssistant'.stage = "iterate") =>
           \E op \in Suspended : CreativeAssistant_joined(op)]_vars

\* Iterate stage reached with both streams delivered in full.
C6_Witness ==
    /\ CreativeAssistant_mounted
    /\ CreativeAssistant.stage = "iterate"
    /\ CreativeAssistant.generateLyricsFlag
    /\ CreativeAssistant.controls.genre # "None"
    /\ Len(CreativeAssistant.textResult) = MaxChunks
    /\ Len(CreativeAssistant.lyricsResult) = MaxChunks

\* C7: when the body of a failed download is read, a body with the "entity
\* not found" signature sets the credential status to not-selected, with the
\* re-selection panel on screen; any other body gives the generic download
\* error and leaves the credential status as it was.  Neither sets a result
\* nor adds a library entry.
C7_CredentialRejected ==
    [][\A op \in Suspended :
          (op.pc = "response.text" /\ op.mounted /\ CharacterAnimator_errorTextRead(op)) =>
              /\ IF Includes(op.response.body, VEO_API_KEY_ERROR_MESSAGE)
                 THEN /\ CharacterAnimator'.apiKeyStatus = "not-selected"
                      /\ CharacterAnimator_renderContent(CharacterAnimator') = "not-selected"
                      /\ CharacterAnimator'.error =
                             "API key is invalid. Please select a valid key."
                 ELSE /\ CharacterAnimator'.apiKeyStatus = CharacterAnimator.apiKeyStatus
                      /\ CharacterAnimator'.error =
                             "Failed to download video: " \o op.response.statusText
                                 \o " - " \o op.response.body
              /\ CharacterAnimator'.resultUrl = CharacterAnimator.resultUrl
              /\ libraryCreations' = libraryCreations]_vars

\* The animator after a download rejected for the credential.
C7_Witness ==
    /\ CharacterAnimator_mounted
    /\ CharacterAnimator.apiKeyStatus = "not-selected"
    /\ CharacterAnimator.error = "API key is invalid. Please select a valid key."
    /\ CharacterAnimator.resultUrl = NoUrl
    /\ libraryCreations = <<>>

\* C8: a handler is past the poll loop only if the last report of the
\* operation was done, and it is in the loop only while the last report was
\* not done; a status query is outstanding only after one more wait than
\* there were queries, everywhere else waits and queries are equal in number.
C8_PollUntilDone ==
    \A op \in Suspended :
        op.h = "CharacterAnimator.handleAnimate" =>
            /\ op.pc \in {"fetch", "response.text", "response.blob"} => op.done
            /\ op.pc \in {"setTimeout", "getVideosOperation"} => ~op.done
            /\ op.waits = op.queries + (IF op.pc = "getVideosOperation" THEN 1 ELSE 0)

\* The operation was reported not done twice, then done: the download starts
\* after two waits and two queries.
C8_Witness ==
    \E op \in Suspended :
        /\ op.h = "CharacterAnimator.handleAnimate"
        /\ op.pc = "fetch"
        /\ op.waits = MaxPolls
        /\ op.queries = MaxPolls

\* The awaits at which a generation request is in flight.
GenerationCalls ==
    {"performFaceSwap", "performBackgroundRemoval", "compositeWithGeneratedBackground",
     "compositeWithUploadedBackground", "createGreenScreenImage",
     "generateDetailedPrompt", "generateImage", "Promise.all",
     "generateVideos", "setTimeout", "getVideosOperation"}
InFlight ==
    BagCardinality([op \in {o \in Suspended : ~o.stale /\ o.pc \in GenerationCalls} |->
                       pending[op]])

\* C9, as stated: within one workflow session at most one generation request
\* is in flight.
C9_SingleFlight == InFlight <= 1

\* The steps that begin a history anew.
CreativeAssistant_historyReset ==
    \/ TopicInput_resetAll
    \/ CreativeAssistant_handleStartOver
    \/ CreativeAssistant_onBack
    \/ CreativeAssistant_imageResolved
IsPrefix(items, items2) ==
    Len(items) <= Len(items2) /\ SubSeq(items2, 1, Len(items)) = items

\* C10, as stated: within a CreativeAssistant session, with no handler of an
\* earlier session pending, every artifact appended to the history stays in
\* it, in append order: a step that does not begin the history anew only
\* extends it.
C10_NoLostAppend ==
    [][(/\ CreativeAssistant_mounted
        /\ \A op \in Suspended : ~op.stale
        /\ ~CreativeAssistant_historyReset) =>
           IsPrefix(CreativeAssistant.imageHistory, CreativeAssistant'.imageHistory)]_vars

\* The stage error holds what a failure with one of the given messages leaves
\* there: the message itself, or the handler's default text when the failure
\* carries no message.
Retained(error, messages, defaults) ==
    \E message \in messages, default \in defaults :
        error = IF message = "" THEN default ELSE message
\* The stage error is the message of the failure, whatever it is.
RetainedVerbatim(error, messages) == error \in messages

FaceSwap_caught(s, t) ==
    /\ ~t.isLoading
    /\ t.editHistory = s.editHistory /\ t.editHistoryIndex = s.editHistoryIndex
    /\ libraryCreations' = libraryCreations
BackgroundRemover_caught(s, t) ==
    /\ ~t.isLoading
    /\ t.editHistory = s.editHistory /\ t.editHistoryIndex = s.editHistoryIndex
    /\ t.foregroundImage = s.foregroundImage
    /\ libraryCreations' = libraryCreations
CreativeAssistant_caught(s, t) ==
    /\ ~t.isLoading
    /\ t.imageHistory = s.imageHistory /\ t.currentHistoryIndex = s.currentHistoryIndex
    /\ t.stage = s.stage
    /\ libraryCreations' = libraryCreations
CharacterAnimator_caught(s, t) ==
    /\ ~t.isLoading
    /\ t.resultUrl = s.resultUrl
    /\ libraryCreations' = libraryCreations

CompositeDefaults ==
    {"Failed to generate background.", "Failed to composite images.",
     "Failed to apply green screen."}
DownloadMessages ==
    {"API key is invalid. Please select a valid key."} \cup
    {"Failed to download video: " \o r.statusText \o " - " \o r.body : r \in ErrorResponses}

\* A stream of a content handler throws in this step.
CreativeAssistant_streamFailed == CreativeAssistant_textFailed \/ CreativeAssistant_lyricsFailed
\* A content handler whose Promise.all has rejected has a stream running on.
CreativeAssistant_streamsDetached ==
    \E op \in Suspended :
        op.h = "CreativeAssistant.handleGenerateContent" /\ op.pc = "detached"
\* The content handler is awaiting its streams.
CreativeAssistant_awaitsStreams ==
    \E op \in Suspended :
        op.h = "CreativeAssistant.handleGenerateContent" /\ op.pc = "Promise.all"
\* A step of the animator that ends a handler of the mounted component with a
\* failure of animateCharacter.
CharacterAnimator_pollerFailed ==
    /\ \E op \in Suspended :
          /\ op.h = "CharacterAnimator.handleAnimate" /\ op.mounted
          /\ op.pc \in {"generateVideos", "getVideosOperation"}
          /\ pending' = Resume(op)
    /\ \/ animateCharacter_rejected
       \/ animateCharacter_generateVideosResolved
       \/ animateCharacter_getVideosOperationResolved
CharacterAnimator_downloadFails(pcs) ==
    \E op \in Suspended :
        /\ op.h = "CharacterAnimator.handleAnimate" /\ op.mounted
        /\ op.pc \in pcs
        /\ pending' = Resume(op)

StartOverResets ==
    /\ FaceSwap_handleStartOver =>
           /\ FaceSwap'.error = "null"
           /\ FaceSwap'.editHistory = <<>>
           /\ ~FaceSwap'.isSaved
           /\ FaceSwap_renderContent(FaceSwap') = "input"
           /\ FaceSwapInput' = FaceSwapInputInit
    /\ BackgroundRemover_handleStartOver =>
           /\ BackgroundRemover'.error = "null"
           /\ BackgroundRemover'.editHistory = <<>>
           /\ BackgroundRemover'.foregroundImage = NoUrl
           /\ ~BackgroundRemover'.isSaved /\ ~BackgroundRemover'.isCutoutSaved
           /\ BackgroundRemover'.stage = "input"
           /\ BackgroundRemover_renderContent(BackgroundRemover') = "input"
           /\ BackgroundRemoverInput' = BackgroundRemoverInputInit
    /\ TopicInput_resetAll \/ CreativeAssistant_handleStartOver =>
           /\ CreativeAssistant'.error = "null"
           /\ CreativeAssistant'.imageHistory = <<>>
           /\ CreativeAssistant'.currentHistoryIndex =
                  CreativeAssistantInit.currentHistoryIndex
           /\ CreativeAssistant'.savedImageUrls = {}
           /\ CreativeAssistant'.stage = "prompt"
           /\ ~CreativeAssistant'.isLoading
           /\ CreativeAssistant_render(CreativeAssistant') = "main"
    /\ CharacterAnimator_handleStartOver =>
           /\ CharacterAnimator'.error = "null"
           /\ CharacterAnimator'.resultUrl = NoUrl
           /\ CharacterAnimator_renderContent(CharacterAnimator') = "input"

UndoContract(s, undone) ==
    undone = IF s.editHistoryIndex > 0
             THEN [s EXCEPT !.editHistoryIndex = s.editHistoryIndex - 1] ELSE s
RedoContract(s, redone) ==
    redone = IF s.editHistoryIndex < Len(s.editHistory) - 1
             THEN [s EXCEPT !.editHistoryIndex = s.editHistoryIndex + 1] ELSE s

\* C13: in every reachable state of FaceSwap and BackgroundRemover canUndo is
\* cursor > 0 and canRedo is cursor < length - 1; the undo handler moves the
\* cursor back by exactly one under canUndo and changes nothing at cursor 0 or
\* on an empty history, the redo handler moves it forward by exactly one under
\* canRedo and changes nothing at the tail.
C13_UndoRedoGuards ==
    /\ FaceSwap_canUndo(FaceSwap) <=> FaceSwap.editHistoryIndex > 0
    /\ FaceSwap_canRedo(FaceSwap) <=>
           FaceSwap.editHistoryIndex < Len(FaceSwap.editHistory) - 1
    /\ UndoContract(FaceSwap, FaceSwap_undo(FaceSwap))
    /\ RedoContract(FaceSwap, FaceSwap_redo(FaceSwap))
    /\ BackgroundRemover_canUndo(BackgroundRemover) <=>
           BackgroundRemover.editHistoryIndex > 0
    /\ BackgroundRemover_canRedo(BackgroundRemover) <=>
           BackgroundRemover.editHistoryIndex < Len(BackgroundRemover.editHistory) - 1
    /\ UndoContract(BackgroundRemover, BackgroundRemover_undo(BackgroundRemover))
    /\ RedoContract(BackgroundRemover, BackgroundRemover_redo(BackgroundRemover))

\* FaceSwap with three entries and the cursor in the middle: undo and redo
\* both have a step to take; the cursor got there by an undo.
C13_Witness ==
    /\ FaceSwap_shows("result")
    /\ Len(FaceSwap.editHistory) = 3
    /\ FaceSwap.editHistoryIndex = 1

\* The component state t differs from s in the cursor at most.
OnlyCursor(s, t) == t = [s EXCEPT !.editHistoryIndex = t.editHistoryIndex]

\* C14: an undo or redo step changes the cursor and nothing else: the history
\* items, the original image, the error, the loading flag and every other
\* field of the component stay, the library stays, and no handler is started
\* or resumed (no backend request is issued).
C14_UndoRedoFrame ==
    [][/\ FaceSwap_handleUndo \/ FaceSwap_handleRedo =>
              /\ OnlyCursor(FaceSwap, FaceSwap')
              /\ FaceSwap'.editHistoryIndex # FaceSwap.editHistoryIndex
              /\ UNCHANGED <<libraryCreations, pending, currentTool, FaceSwapInput>>
       /\ BackgroundRemover_handleUndo \/ BackgroundRemover_handleRedo =>
              /\ OnlyCursor(BackgroundRemover, BackgroundRemover')
              /\ BackgroundRemover'.editHistoryIndex # BackgroundRemover.editHistoryIndex
              /\ UNCHANGED <<libraryCreations, pending, currentTool, BackgroundRemoverInput>>]_vars

\* BackgroundRemover after an edit and an undo: two entries, the cursor on
\* the first.
C14_Witness ==
    /\ BackgroundRemover_shows("result")
    /\ Len(BackgroundRemover.editHistory) = 2
    /\ BackgroundRemover.editHistoryIndex = 0

(***************************************************************************)
(* C15: the session library.                                               *)
(***************************************************************************)
\* Start over in any tool, going back to the menu, and opening a tool from
\* the menu, for the first time or again.
ResetOrNavigation ==
    \/ FaceSwap_handleStartOver
    \/ BackgroundRemover_handleStartOver
    \/ BackgroundRemover_tryAgain
    \/ CreativeAssistant_handleStartOver
    \/ TopicInput_resetAll
    \/ CharacterAnimator_handleStartOver
    \/ FaceSwap_onBack
    \/ BackgroundRemover_onBack
    \/ CreativeAssistant_onBack
    \/ CharacterAnimator_onBack
    \/ App_openTool
    \/ App_openCharacterAnimator
    \/ App_switchTool
    \/ App_switchToCharacterAnimator

\* The library of the next state is the one of this state with one entry put
\* in front: every entry it had is still there, one place further down.
Prepended ==
    /\ Len(libraryCreations') = Len(libraryCreations) + 1
    /\ \A i \in 1 .. Len(libraryCreations) : libraryCreations'[i + 1] = libraryCreations[i]

\* C15: the library is append-only and ordered most recent first.  Every step
\* of every workflow either leaves it as it is or puts one entry in front of
\* the entries it had, which keep their content and their order; a save puts
\* the artifact on screen there; start over, going back to the menu and
\* switching tools leave it as it is.
C15_LibraryAppendOnly ==
    [][/\ libraryCreations' = libraryCreations \/ Prepended
       /\ ResetOrNavigation => libraryCreations' = libraryCreations
       /\ FaceSwap_handleSave /\ ~FaceSwap.isSaved =>
              Prepended /\ libraryCreations'[1].imageUrl = FaceSwap_result(FaceSwap)
       /\ BackgroundRemover_handleSave /\ ~BackgroundRemover.isSaved =>
              Prepended /\ libraryCreations'[1].imageUrl = BackgroundRemover_finalResult(BackgroundRemover)
       /\ BackgroundRemover_handleSaveCutout =>
              Prepended /\ libraryCreations'[1].imageUrl = BackgroundRemover.foregroundImage
       /\ CreativeAssistant_handleSaveToLibrary =>
              Prepended /\ libraryCreations'[1].imageUrl =
                               At(CreativeAssistant.imageHistory,
                                  CreativeAssistant.currentHistoryIndex)]_vars

\* The user saved a face swap, went back to the menu, switched to the creative
\* assistant, saved an image there and started over: both entries are in the
\* library, the later one first.
C15_Witness ==
    /\ opened = MaxSwitches
    /\ currentTool = "creative-assistant"
    /\ CreativeAssistant.stage = "prompt"
    /\ Len(libraryCreations) = 2
    /\ libraryCreations[1].type = "Jackson's Creative AI"
    /\ libraryCreations[2].type = "Face Swap"

(***************************************************************************)
(* C16: image first, then the streams.                                     *)
(***************************************************************************)
ContentOps(bag) ==
    {op \in BagToSet(bag) : op.h = "CreativeAssistant.handleGenerateContent"}

\* No stream of the invocation was requested and no chunk of it was received.
StreamsUntouched(op) ==
    /\ op.text = "idle"
    /\ op.lyrics = "idle"
    /\ op.textSent = 0
    /\ op.lyricsSent = 0

\* C16: within one content invocation the image is awaited before any stream
\* starts.  While the invocation waits for generateImage none of its streams
\* was requested and none of its chunks was received; its streams are started
\* in the step in which generateImage resolves, which has put the image in
\* the history; a chunk is received only from an invocation past generateImage.
C16_ImageBeforeStreams ==
    /\ [](\A op \in ContentOps(pending) : op.pc = "generateImage" => StreamsUntouched(op))
    /\ [][/\ \A next \in ContentOps(pending') :
                (/\ ~StreamsUntouched(next)
                 /\ \A op \in ContentOps(pending) : StreamsUntouched(op)) =>
                    /\ CreativeAssistant_imageResolved
                    /\ Len(CreativeAssistant'.imageHistory) = 1
                    /\ CreativeAssistant'.currentHistoryIndex = 0
                    /\ Len(CreativeAssistant'.textResult) = Len(CreativeAssistant.textResult)
                    /\ Len(CreativeAssistant'.lyricsResult) = Len(CreativeAssistant.lyricsResult)
          /\ (\/ Len(CreativeAssistant'.textResult) > Len(CreativeAssistant.textResult)
              \/ Len(CreativeAssistant'.lyricsResult) > Len(CreativeAssistant.lyricsResult)) =>
                \E op \in ContentOps(pending) :
                    op.pc # "generateImage" /\ ~StreamsUntouched(op)]_vars

\* The image is in the history and the first chunks of both streams of the
\* same invocation have arrived after it.
C16_Witness ==
    /\ CreativeAssistant.isLoading
    /\ Len(CreativeAssistant.imageHistory) = 1
    /\ \E op \in ContentOps(pending) :
          /\ op.pc = "Promise.all"
          /\ ~op.stale
          /\ op.textSent = 1
          /\ op.lyricsSent = 1
          /\ Len(CreativeAssistant.textResult) = 1
          /\ Len(CreativeAssistant.lyricsResult) = 1

(***************************************************************************)
(* C17: each stream writes its own output only.                            *)
(***************************************************************************)
\* The chunks a stream has delivered so far, in the order of their arrival.
StreamedSoFar(n) == [i \in 1 .. n |-> i]

\* C17: textResult is the in-order concatenation of the chunks received so
\* far from the text stream of the current content invocation and nothing
\* else, and lyricsResult likewise, under every interleaving and across a
\* failed invocation followed by a restart: while the invocation of the
\* current session runs the two outputs are exactly what its streams have
\* delivered, and a chunk delivered by a stream of an invocation that was
\* abandoned with Start Over is added to neither.
C17_OwnChunksOnly ==
    /\ [](\A op \in ContentOps(pending) :
             ~op.stale =>
                 /\ CreativeAssistant.textResult = StreamedSoFar(op.textSent)
                 /\ CreativeAssistant.lyricsResult = StreamedSoFar(op.lyricsSent))
    /\ [][\A op \in ContentOps(pending) :
             op.stale =>
                 /\ pending' = Replace(op, [op EXCEPT !.textSent = @ + 1]) =>
                        CreativeAssistant'.textResult = CreativeAssistant.textResult
                 /\ pending' = Replace(op, [op EXCEPT !.lyricsSent = @ + 1]) =>
                        CreativeAssistant'.lyricsResult = CreativeAssistant.lyricsResult]_vars

(***************************************************************************)
(* C18: a failure aborts the content stage.                                *)
(***************************************************************************)
CreativeAssistant_streamStep ==
    \/ CreativeAssistant_textChunk
    \/ CreativeAssistant_textEnd
    \/ CreativeAssistant_textFailed
    \/ CreativeAssistant_lyricsChunk
    \/ CreativeAssistant_lyricsEnd
    \/ CreativeAssistant_lyricsFailed

\* The stage is as it was, short of 'iterate', and the error panel is on.
CreativeAssistant_aborted ==
    /\ CreativeAssistant'.stage = CreativeAssistant.stage
    /\ CreativeAssistant'.stage # "iterate"
    /\ CreativeAssistant'.error # "null"
    /\ ~CreativeAssistant'.isLoading

\* C18: a failure aborts the content stage.  When generateImage fails no
\* stream is started, the history stays empty, the stage stays short of
\* 'iterate' and the error is set.  When a stream fails while the handler
\* awaits the streams, the stage stays short of 'iterate' and the error is
\* set; from then on no step of that invocation's other stream changes the
\* stage, the error or the history; and the stage becomes 'iterate' only by
\* an invocation none of whose streams has failed.
C18_FailureAborts ==
    [][/\ CreativeAssistant_imageRejected =>
              /\ CreativeAssistant_aborted
              /\ CreativeAssistant.imageHistory = <<>>
              /\ CreativeAssistant'.imageHistory = <<>>
              /\ ContentOps(pending') = {}
              /\ CreativeAssistant'.textResult = <<>>
              /\ CreativeAssistant'.lyricsResult = <<>>
       /\ \A op \in ContentOps(pending) :
              (/\ op.pc = "Promise.all"
               /\ CreativeAssistant_textFailed \/ CreativeAssistant_lyricsFailed) =>
                  /\ CreativeAssistant_aborted
                  /\ \A next \in ContentOps(pending') : next.pc = "detached"
       /\ \A op \in ContentOps(pending) :
              (op.pc = "detached" /\ CreativeAssistant_streamStep) =>
                  /\ CreativeAssistant'.stage = CreativeAssistant.stage
                  /\ CreativeAssistant'.error = CreativeAssistant.error
                  /\ CreativeAssistant'.isLoading = CreativeAssistant.isLoading
                  /\ CreativeAssistant'.imageHistory = CreativeAssistant.imageHistory
       /\ (CreativeAssistant.stage # "iterate" /\ CreativeAssistant'.stage = "iterate") =>
              \E op \in ContentOps(pending) :
                  /\ op.pc = "Promise.all"
                  /\ op.text # "failed"
                  /\ op.lyrics # "failed"]_vars

(***************************************************************************)
(* C19: a video job the user walked away from.                             *)
(***************************************************************************)
\* The animate handlers whose component was unmounted by "Back to Menu".
CharacterAnimator_abandoned ==
    {op \in Suspended : op.h = "CharacterAnimator.handleAnimate" /\ ~op.mounted}

\* C19: abandoning a video job stops polling.  Once the user has left the
\* CharacterAnimator, a job of it that is in the polling loop stays where it
\* is: its wait does not end in a further status query and no report of the
\* operation is read, so that no download is attempted and nothing is made
\* of its outcome.
C19_AbandonStopsPolling ==
    [][\A op \in CharacterAnimator_abandoned :
          op.pc \in {"setTimeout", "getVideosOperation"} =>
              CopiesIn(op, pending') = CopiesIn(op, pending)]_vars

(***************************************************************************)
(* C20: the poller has no deadline, and a job comes to an end.             *)
(***************************************************************************)
AnimateOps(bag) == {op \in BagToSet(bag) : op.h = "CharacterAnimator.handleAnimate"}

\* Where the animate handler of the session is, "none" when there is none.
AnimatePc(bag) ==
    IF AnimateOps(bag) = {} THEN "none" ELSE (CHOOSE op \in AnimateOps(bag) : TRUE).pc

AnimateMounted(bag) == \E op \in AnimateOps(bag) : op.mounted

\* The poll loop has no way out but a report of the operation: a wait ends in
\* the next status query and nowhere else, a report that is not done in the
\* next wait, and queries and waits are not counted against any limit of the
\* program's.
PollsOn ==
    /\ AnimatePc(pending) = "setTimeout" =>
           AnimatePc(pending') \in {"setTimeout", "getVideosOperation"}
    /\ AnimatePc(pending) = "getVideosOperation" =>
           AnimatePc(pending') \in {"getVideosOperation", "setTimeout", "fetch", "none"}
    /\ (AnimatePc(pending) = "getVideosOperation" /\ AnimatePc(pending') = "fetch") =>
           \A op \in AnimateOps(pending') : op.done
    /\ (AnimatePc(pending) = "getVideosOperation" /\ AnimatePc(pending') = "setTimeout") =>
           \A op \in AnimateOps(pending') : ~op.done

\* The handler of a mounted CharacterAnimator has ended: the component shows
\* nothing loading, and a result or an error.
EndedInResultOrError(s) ==
    /\ ~s.isLoading
    /\ s.resultUrl # NoUrl \/ s.error # "null"

\* An animate handler in flight comes to its end; and unless the user leaves
\* the CharacterAnimator it was started in, that component is then in Result
\* or Error with isLoading false.
AnimateEnds ==
    /\ (AnimatePc(pending) # "none") ~> (AnimatePc(pending) = "none")
    /\ AnimateMounted(pending) ~>
           \/ ~CharacterAnimator_mounted
           \/ /\ AnimatePc(pending) = "none"
              /\ EndedInResultOrError(CharacterAnimator)

\* C20, as stated: the poller keeps polling for as long as the operation is
\* reported not done, a submitted job leaves the poll loop only by a report
\* that the operation is done (with a download link, or with the error that
\* there is none), and every animate action eventually ends in Result or
\* Error with isLoading false.
C20_PollerEnds ==
    /\ [][/\ PollsOn
          /\ (/\ AnimateMounted(pending)
              /\ AnimatePc(pending) = "getVideosOperation"
              /\ AnimatePc(pending') = "none") =>
                 CharacterAnimator'.error =
                     "Video generation failed to produce a download link."]_vars
    /\ AnimateEnds

\* C20, amended: a submitted job leaves the poll loop by a report that the
\* operation is done or by a status query that is rejected, which ends the
\* handler in Error like a failure of the download; the rest as stated.
C20_PollerEndsAmended ==
    /\ [][/\ PollsOn
          /\ (/\ AnimateMounted(pending)
              /\ AnimatePc(pending) = "getVideosOperation"
              /\ AnimatePc(pending') = "none") =>
                 /\ CharacterAnimator'.error # "null"
                 /\ ~CharacterAnimator'.isLoading
                 /\ CharacterAnimator'.resultUrl = NoUrl]_vars
    /\ AnimateEnds

\* The operation was reported not done by generateVideos and again by a
\* status query: the handler of the mounted CharacterAnimator waits for the
\* next query, with the loading screen on.
C20_Witness ==
    /\ CharacterAnimator_shows("loading")
    /\ \E op \in AnimateOps(pending) :
          /\ op.mounted
          /\ op.pc = "setTimeout"
          /\ op.queries = MaxPolls - 1
          /\ op.waits = op.queries

(***************************************************************************)
(* C21: the mandatory fields of a submit.                                  *)
(***************************************************************************)
\* The step starts a handler h: one more of them is suspended after it.
InFlightOf(bag, h) ==
    BagCardinality([op \in {o \in BagToSet(bag) : o.h = h} |-> bag[op]])
Started(h) == InFlightOf(pending', h) > InFlightOf(pending, h)

AddedKeepingUpToCursor(items, cursor, items2, cursor2) ==
    LET kept == IF cursor + 1 < Len(items) THEN cursor + 1 ELSE Len(items)
    IN /\ Len(items2) > kept
       /\ cursor2 = Len(items2) - 1
       /\ \A i \in 1 .. kept : items2[i] = items[i]
FaceSwap_resultStep ==
    (FaceSwap.isLoading /\ FaceSwap_performFaceSwapResolved) \/ FaceSwap_editorSave
CreativeAssistant_resultStep ==
    \/ CreativeAssistant.isLoading
          /\ (CreativeAssistant_imageResolved \/ CreativeAssistant_iterateResolved)
    \/ CreativeAssistant_editorSave
\* C22: every step that delivers an artifact to a loading session (a resolved
\* generation, a resolved iteration) or from the image editor adds it as a new
\* history entry, keeps the entries up to the cursor, makes it the current entry and
\* leaves it unsaved.
C22_ResultAppendsUnsaved ==
    [][/\ FaceSwap_resultStep =>
             /\ AddedKeepingUpToCursor(FaceSwap.editHistory, FaceSwap.editHistoryIndex,
                                       FaceSwap'.editHistory, FaceSwap'.editHistoryIndex)
             /\ ~FaceSwap'.isSaved
       /\ CreativeAssistant_resultStep =>
             /\ AddedKeepingUpToCursor(CreativeAssistant.imageHistory,
                                       CreativeAssistant.currentHistoryIndex,
                                       CreativeAssistant'.imageHistory,
                                       CreativeAssistant'.currentHistoryIndex)
             /\ (At(CreativeAssistant'.imageHistory, CreativeAssistant'.currentHistoryIndex)
                     \notin CreativeAssistant.savedImageUrls
                   => ~CreativeAssistant_isCurrentSaved(CreativeAssistant'))]_vars

\* ---- C23 ----
FaceSwapEntries == SelectSeq(libraryCreations, LAMBDA e : e.type = "Face Swap")
\* C23: a face swap goes Input -> Loading -> Result: onGenerate starts loading
\* with an empty history and the uploaded source image as the original; the
\* resolved generation gives a history of one artifact, cursor 0, unsaved; the
\* first save prepends exactly one "Face Swap" entry holding that original and
\* the artifact at the cursor; while the session is saved no step adds a
\* "Face Swap" entry.
C23_FaceSwapEndToEnd ==
    [][/\ FaceSwapInput_onGenerate =>
             /\ FaceSwap'.isLoading /\ FaceSwap'.editHistory = <<>>
             /\ \E op \in Suspended :
                   /\ op.h = "FaceSwapInput.handleSubmit"
                   /\ op.sourceImage \in SourceFiles /\ op.faceImage \in FaceFiles
                   /\ FaceSwap'.originalImage = <<op.sourceImage.type, op.sourceImage.bytes>>
       /\ (FaceSwap.isLoading /\ FaceSwap_performFaceSwapResolved) =>
             /\ Len(FaceSwap'.editHistory) = 1
             /\ FaceSwap'.editHistory[1] \in Artifacts
             /\ FaceSwap'.editHistoryIndex = 0
             /\ ~FaceSwap'.isSaved /\ ~FaceSwap'.isLoading
             /\ FaceSwap'.originalImage = FaceSwap.originalImage
             /\ FaceSwap_shows("result")'
       /\ FaceSwap_handleSave =>
             /\ libraryCreations' =
                    <<[type |-> "Face Swap", originalUrl |-> FaceSwap.originalImage,
                       imageUrl |-> FaceSwap.editHistory[FaceSwap.editHistoryIndex + 1],
                       videoUrl |-> NoUrl]>> \o libraryCreations
             /\ FaceSwap'.isSaved
       /\ (FaceSwap_mounted /\ FaceSwap.isSaved) => FaceSwapEntries' = FaceSwapEntries]_vars
\* The result of a first generation has been saved: history [X], cursor 0, and
\* the newest library entry holds the source image and X.
C23_Witness ==
    /\ FaceSwap_shows("result")
    /\ pending = EmptyBag
    /\ Len(FaceSwap.editHistory) = 1 /\ FaceSwap.editHistoryIndex = 0
    /\ FaceSwap.isSaved
    /\ Len(libraryCreations) = 1
    /\ libraryCreations[1].type = "Face Swap"
    /\ libraryCreations[1].imageUrl = FaceSwap.editHistory[1]
    /\ libraryCreations[1].originalUrl \in {<<f.type, f.bytes>> : f \in SourceFiles}

\* ---- C24 ----
\* A step in which the credential turns out missing or rejected for the
\* mounted animator: the mount check reports no credential, or the download
\* of a mounted job is rejected with the credential error text.
CharacterAnimator_checkReportsNone ==
    CharacterAnimator_hasKeyResolved /\ CharacterAnimator'.apiKeyStatus = "not-selected"
CharacterAnimator_downloadRejectsKey ==
    \E op \in Suspended :
        /\ op.pc = "response.text" /\ op.mounted
        /\ Includes(op.response.body, VEO_API_KEY_ERROR_MESSAGE)
        /\ CharacterAnimator_errorTextRead(op)
\* C24: the animation form is shown only with apiKeyStatus 'selected'; a
\* submit is accepted only with apiKeyStatus 'selected', so none is while the
\* check is pending, and handleAnimate is called only by an accepted submit; after the check reports no
\* credential and after a download rejected for the credential the animator
\* shows the same select-a-key prompt.
C24_CredentialGate ==
    /\ [](CharacterAnimator_shows("input") => CharacterAnimator.apiKeyStatus = "selected")
    /\ [][/\ Started("CharacterAnimatorInput.handleSubmit") =>
                /\ CharacterAnimator_mounted
                /\ CharacterAnimator.apiKeyStatus = "selected"
          /\ Started("CharacterAnimator.handleAnimate") =>
                /\ InFlightOf(pending', "CharacterAnimatorInput.handleSubmit")
                       < InFlightOf(pending, "CharacterAnimatorInput.handleSubmit")
                /\ CharacterAnimatorInput_onAnimate
          /\ (CharacterAnimator_checkReportsNone \/ CharacterAnimator_downloadRejectsKey) =>
                CharacterAnimator_shows("not-selected")']_vars

\* The animator prompts for a key after a download rejected for the
\* credential, the job having been submitted from the form.
C24_Witness ==
    /\ CharacterAnimator_shows("not-selected")
    /\ CharacterAnimator.originalCharacterUrl # NoUrl
    /\ CharacterAnimator.error # "null"
    /\ pending = EmptyBag

\* ---- C25 ----
\* The awaits of a geminiService call, and the handlers whose request has
\* been sent to the backend.
ServiceCalls ==
    {"performFaceSwap", "performBackgroundRemoval", "compositeWithGeneratedBackground",
     "compositeWithUploadedBackground", "generateDetailedPrompt", "generateImage",
     "Promise.all", "generateVideos", "getVideosOperation"}
InBackend == {op \in Suspended : op.pc \in ServiceCalls /\ getAi(geminiService)}
\* C25: without a configured credential no request of a service call reaches
\* the backend; every call is rejected, the rejection puts the configuration
\* error verbatim into the error panel of its workflow, and the rejecting step
\* starts no handler.
C25_ConfigurationError ==
    /\ [](~geminiService.apiKey => InBackend = {})
    /\ [][~geminiService.apiKey =>
            /\ FaceSwap_performFaceSwapRejected =>
                  /\ FaceSwap'.error = ConfigurationError
                  /\ FaceSwap_renderContent(FaceSwap') = "error"
            /\ BackgroundRemover_removalRejected =>
                  /\ BackgroundRemover'.error = ConfigurationError
                  /\ BackgroundRemover_renderContent(BackgroundRemover') = "error"
            /\ CreativeAssistant_promptRejected =>
                  /\ CreativeAssistant'.error = ConfigurationError
                  /\ CreativeAssistant_render(CreativeAssistant') = "error"
            /\ (animateCharacter_rejected /\ \E op \in Suspended :
                    op.pc = "generateVideos" /\ op.mounted) =>
                  /\ CharacterAnimator'.error =
                         "API_KEY environment variable is not configured."
                  /\ CharacterAnimator_renderContent(CharacterAnimator') = "error"
            /\ BagCardinality(pending') > BagCardinality(pending) =>
                  \E op \in BagToSet(pending') :
                      /\ BagCardinality(pending') = BagCardinality(pending) + 1
                      /\ op.pc \in {"fileToImageFile", "fileToImageFile(sourceImage)",
                                    "generateDetailedPrompt", "checkHasApiKey",
                                    "openSelectKey"}]_vars

\* ---- C26 ----
\* How many handlers of the bag await the call pc.
AtCall(bag, pc) ==
    BagCardinality([op \in {o \in BagToSet(bag) : o.pc = pc} |-> bag[op]])
Issued(pc) == AtCall(pending', pc) > AtCall(pending, pc)
\* The step that issues the request awaited at pc: the handler of a user
\* action, or its continuation after the file reads or after the image.
IssuingStep(pc) ==
    CASE pc = "performFaceSwap" -> FaceSwapInput_onGenerate
      [] pc = "performBackgroundRemoval" -> BackgroundRemoverInput_onGenerate
      [] pc = "compositeWithGeneratedBackground" -> BackgroundRemover_handleGenerateBackground
      [] pc = "compositeWithUploadedBackground" -> BackgroundRemover_uploadRead
      [] pc = "generateDetailedPrompt" -> TopicInput_handleSubmitPrompt
      [] pc = "generateImage" ->
             TopicInput_handleSubmitContent \/ TopicInput_handleSubmitIteration
      [] pc = "Promise.all" -> CreativeAssistant_imageResolved
      [] pc = "generateVideos" -> CharacterAnimatorInput_onAnimate
GenerationRequests ==
    {"performFaceSwap", "performBackgroundRemoval", "compositeWithGeneratedBackground",
     "compositeWithUploadedBackground", "generateDetailedPrompt", "generateImage",
     "Promise.all", "generateVideos"}
GenerationRejected ==
    \/ FaceSwap_performFaceSwapRejected
    \/ BackgroundRemover_removalRejected
    \/ BackgroundRemover_compositeRejected
    \/ CreativeAssistant_promptRejected
    \/ CreativeAssistant_imageRejected
    \/ CreativeAssistant_iterateRejected
    \/ animateCharacter_rejected
EntersLoading ==
    \/ ~FaceSwap.isLoading /\ FaceSwap'.isLoading
    \/ ~BackgroundRemover.isLoading /\ BackgroundRemover'.isLoading
    \/ ~CreativeAssistant.isLoading /\ CreativeAssistant'.isLoading
    \/ ~CharacterAnimator.isLoading /\ CharacterAnimator'.isLoading
\* C26: a generation request is issued only by the handler of a user action,
\* one request per step; a handler that continues after its file reads is
\* used up by the request it issues; a workflow enters Loading only in such a
\* handler; a rejected generation ends its handler and issues nothing, and a
\* failed stream issues nothing.
C26_NoAutomaticRetry ==
    [][/\ \A pc \in GenerationRequests :
             Issued(pc) => /\ IssuingStep(pc)
                           /\ AtCall(pending', pc) = AtCall(pending, pc) + 1
                           /\ BagCardinality(pending') <= BagCardinality(pending) + 1
       /\ Issued("performFaceSwap") =>
             InFlightOf(pending', "FaceSwapInput.handleSubmit")
                 = InFlightOf(pending, "FaceSwapInput.handleSubmit") - 1
       /\ Issued("generateVideos") =>
             InFlightOf(pending', "CharacterAnimatorInput.handleSubmit")
                 = InFlightOf(pending, "CharacterAnimatorInput.handleSubmit") - 1
       /\ EntersLoading =>
             \/ \E pc \in GenerationRequests : Issued(pc)
             \/ BackgroundRemover_handleUploadBackground
             \/ BackgroundRemover_handleGreenScreen
             \/ CharacterAnimatorInput_onAnimate
       /\ GenerationRejected =>
             /\ BagCardinality(pending') = BagCardinality(pending) - 1
             /\ \A pc \in GenerationRequests : ~Issued(pc)
       /\ (CreativeAssistant_textFailed \/ CreativeAssistant_lyricsFailed) =>
             /\ BagCardinality(pending') <= BagCardinality(pending)
             /\ \A pc \in GenerationRequests : ~Issued(pc)]_vars
\* A failed face swap is shown and nothing of the session is in flight.
C26_Witness ==
    /\ FaceSwap_shows("error")
    /\ FaceSwap.originalImage # NoUrl
    /\ FaceSwap.editHistory = <<>>
    /\ pending = EmptyBag

\* ---- C27 ----
\* A handler of the CreativeAssistant started before Start Over settles or
\* streams: every handler in flight is stale and the step takes one further.
CreativeAssistant_staleSettles ==
    /\ CreativeAssistant_mounted
    /\ pending # EmptyBag
    /\ \A op \in Suspended : op.stale
    /\ pending' # pending
\* C27: a generation or iteration that was in flight when Start Over was
\* pressed leaves the history, the cursor and the error of the reset session
\* as they are when it settles.
C27_StartOverStaysReset ==
    [][CreativeAssistant_staleSettles =>
           /\ CreativeAssistant'.imageHistory = CreativeAssistant.imageHistory
           /\ CreativeAssistant'.currentHistoryIndex = CreativeAssistant.currentHistoryIndex
           /\ CreativeAssistant'.error = CreativeAssistant.error]_vars

\* ---- C28 ----
\* C28, as stated: Try Again leads to stage 'editing' with the error cleared
\* and the foreground cutout available, and in every state of a background
\* removal stage 'editing' implies that a cutout is present.
C28_TryAgainToEditing ==
    /\ [](BackgroundRemover_mounted /\ BackgroundRemover.stage = "editing"
              => BackgroundRemover.foregroundImage # NoUrl)
    /\ [][BackgroundRemover_tryAgain =>
              /\ BackgroundRemover'.stage = "editing"
              /\ BackgroundRemover'.error = "null"
              /\ BackgroundRemover'.foregroundImage # NoUrl]_vars
\* C28, amended: Try Again sets stage 'editing', clears the error and leaves
\* the cutout as it was; a failed compositing step keeps the cutout and the
\* stage 'editing', a failed removal sets stage 'input'; the editing view is
\* shown only with a cutout, and in stage 'editing' without one (Try Again
\* after a failed removal) the input form is shown.
C28_TryAgainToEditingAmended ==
    /\ [](BackgroundRemover_mounted /\ BackgroundRemover.stage = "editing"
              /\ ~BackgroundRemover.isLoading /\ BackgroundRemover.error = "null"
              => IF BackgroundRemover.foregroundImage # NoUrl
                 THEN BackgroundRemover_shows("editing")
                 ELSE BackgroundRemover_shows("input"))
    /\ [][/\ BackgroundRemover_tryAgain =>
                /\ BackgroundRemover'.stage = "editing"
                /\ BackgroundRemover'.error = "null"
                /\ BackgroundRemover'.foregroundImage = BackgroundRemover.foregroundImage
          /\ BackgroundRemover_compositeRejected =>
                /\ BackgroundRemover'.stage = "editing"
                /\ BackgroundRemover'.foregroundImage = BackgroundRemover.foregroundImage
          /\ BackgroundRemover_removalRejected => BackgroundRemover'.stage = "input"]_vars
\* Try Again after a failed removal: stage 'editing' without a cutout.
C28_Witness ==
    /\ BackgroundRemover_mounted
    /\ BackgroundRemover.stage = "editing"
    /\ BackgroundRemover.error = "null"
    /\ BackgroundRemover.foregroundImage = NoUrl
    /\ BackgroundRemover.originalImage # NoUrl
    /\ pending = EmptyBag

\* ---- C30 ----
\* The handlers of handleIterateImage in a bag; each holds the history its
\* closure captured.
IterateOps(bag) == {op \in BagToSet(bag) : op.h = "CreativeAssistant.handleIterateImage"}
\* C30: an iteration is started only with the cursor on the latest entry, and
\* the image it sends, the last of the history it captured, is the entry at
\* the cursor; "go to latest" is offered only while an older entry is viewed
\* and moves the cursor to the latest entry, leaving the history as it is.
C30_IterateOnLatest ==
    [][/\ Started("CreativeAssistant.handleIterateImage") =>
             /\ TopicInput_handleSubmitIteration
             /\ CreativeAssistant.currentHistoryIndex = Len(CreativeAssistant.imageHistory) - 1
             /\ \E op \in IterateOps(pending') :
                   /\ ~op.stale /\ op.pc = "generateImage"
                   /\ op.imageHistory = CreativeAssistant.imageHistory
                   /\ op.imageHistory[Len(op.imageHistory)] =
                          CreativeAssistant.imageHistory[CreativeAssistant.currentHistoryIndex + 1]
       /\ TopicInput_handleSubmitIteration =>
             CreativeAssistant.currentHistoryIndex = Len(CreativeAssistant.imageHistory) - 1
       /\ TopicInput_onGoToLatest =>
             /\ CreativeAssistant.currentHistoryIndex # Len(CreativeAssistant.imageHistory) - 1
             /\ CreativeAssistant'.currentHistoryIndex = Len(CreativeAssistant.imageHistory) - 1
             /\ CreativeAssistant'.imageHistory = CreativeAssistant.imageHistory]_vars
\* An iteration on the second of two entries is in flight, the cursor on it.
C30_Witness ==
    /\ CreativeAssistant_mounted
    /\ Len(CreativeAssistant.imageHistory) = 2
    /\ CreativeAssistant.currentHistoryIndex = 1
    /\ \E op \in IterateOps(pending) :
          /\ ~op.stale
          /\ op.imageHistory = CreativeAssistant.imageHistory

(***************************************************************************)
(* Tool-to-tool handoff                                                    *)
(***************************************************************************)
\* The loads of a handed image in flight, of a mounted tool or not.
Loads == {op \in Suspended : op.h = "useEffect(initialImage)"}
LibraryImages == {libraryCreations[i].imageUrl : i \in DOMAIN libraryCreations}
\* The file holds the image of that url.
FileOf(file, url) == url # NoUrl /\ <<file.type, file.bytes>> = url
\* The receiving tool is at its Input stage: history empty, no error, not loading.
AtInputStage(tool, fs, br) ==
    IF tool = "face-swap"
    THEN /\ FaceSwap_renderContent(fs) = "input"
         /\ fs.editHistory = <<>> /\ fs.error = "null" /\ ~fs.isLoading
    ELSE /\ BackgroundRemover_renderContent(br) = "input"
         /\ br.editHistory = <<>> /\ br.error = "null" /\ ~br.isLoading
InputImage(tool, fsInput, brInput) ==
    IF tool = "face-swap" THEN fsInput.sourceImage ELSE brInput.image

IsTextPart(part) == "text" \in DOMAIN part
IsImagePart(part) == "inlineData" \in DOMAIN part
TextPartsOf(request) == {i \in DOMAIN request : IsTextPart(request[i])}
ImagePartsOf(request) == {i \in DOMAIN request : IsImagePart(request[i])}
\* The image part carries the image of that data URL.
PartOf(part, url) ==
    /\ IsImagePart(part)
    /\ <<part.inlineData.mimeType, part.inlineData.data>> = url
IterateRequests ==
    {op \in Suspended : op.h = "CreativeAssistant.handleIterateImage"}

\* C31: the request of an iteration consists of the iteration prompt and one
\* image, the last image of the history the handler was called with, whatever
\* source image and assets the generation of the session was given; and it
\* is built so when the iteration is submitted.
C31_IterationRequest ==
    /\ [](\A op \in IterateRequests :
            /\ Len(op.request) = 2
            /\ IsTextPart(op.request[1])
            /\ PartOf(op.request[2], op.imageHistory[Len(op.imageHistory)])
            /\ ImagePartsOf(op.request) = {2})
    /\ [][Started("CreativeAssistant.handleIterateImage") =>
            \E op \in BagToSet(pending') :
                /\ op.h = "CreativeAssistant.handleIterateImage"
                /\ CopiesIn(op, pending') > CopiesIn(op, pending)
                /\ op.imageHistory = CreativeAssistant.imageHistory
                /\ op.request[1].text = TopicInput.iterationPrompt]_vars

\* An iteration is in flight in a session that was generated from a source
\* image and two selected assets.
C31_Witness ==
    /\ CreativeAssistant.sourceImage # NoImage
    /\ Len(CreativeAssistant.assetLibrary) = 2
    /\ \E op \in IterateRequests : ~op.stale /\ Len(op.imageHistory) = 2

\* The images a suspended service call was supplied with, in the order of
\* its arguments: what the calling handler captured.
WithSource(sourceImage, assets) ==
    IF sourceImage # NoImage THEN <<sourceImage>> \o assets ELSE assets
Supplied(op) ==
    CASE op.h = "CreativeAssistant.handleGeneratePrompt" ->
            WithSource(op.sourceImage, op.assetLibrary)
      [] op.h = "CreativeAssistant.handleGenerateContent" ->
            WithSource(op.sourceImage, op.assetLibrary)
      [] op.h = "CreativeAssistant.handleIterateImage" ->
            <<[data |-> op.imageHistory[Len(op.imageHistory)][2],
               type |-> op.imageHistory[Len(op.imageHistory)][1]]>>
      [] op.h = "FaceSwap.handleFaceSwapGenerate" -> <<op.sourceImage, op.faceImage>>
      [] op.h = "BackgroundRemover.handleInitialRemoval" -> <<op.image>>
      [] op.h = "BackgroundRemover.handleGenerateBackground" ->
            <<[data |-> op.foregroundImage[2], type |-> "image/png"]>>
      [] op.h = "BackgroundRemover.handleUploadBackground" ->
            <<[data |-> op.foregroundImage[2], type |-> "image/png"],
              [data |-> op.file.bytes, type |-> op.file.type]>>
\* The calls that have built a request and await the backend.
Requesting == {op \in Suspended : "request" \in DOMAIN op /\ op.request # <<>>}
Streaming ==
    {op \in Suspended : op.h = "CreativeAssistant.handleGenerateContent"
                        /\ op.textRequest # <<>>}
\* The request has one image part for each of the images, in their order,
\* and nothing but text parts besides.
CarriesImages(request, images) ==
    /\ \A i \in DOMAIN request : IsTextPart(request[i]) # IsImagePart(request[i])
    /\ SelectSeq(request, IsImagePart)
         = [i \in 1 .. Len(images) |->
               [inlineData |-> [data |-> images[i].data, mimeType |-> images[i].type]]]
TextParts(request) == Cardinality(TextPartsOf(request))
DraftsFromImage(op) ==
    op.h = "CreativeAssistant.handleGeneratePrompt" /\ op.sourceImage # NoImage

Adjacent(items, cursor, upload) ==
    [beforeImage |-> IF cursor > 0 THEN items[cursor] ELSE upload,
     afterImage |-> items[cursor + 1]]

\* C33 as stated: whenever a result view is on screen, its before/after
\* display shows the artifact under the cursor against its predecessor in the
\* history, and the first entry against the original upload.
C33_AdjacentComparison ==
    /\ FaceSwap_shows("result") =>
          FaceSwap_BeforeAfterSlider(FaceSwap)
            = Adjacent(FaceSwap.editHistory, FaceSwap.editHistoryIndex,
                       FaceSwap.originalImage)
    /\ BackgroundRemover_shows("result") =>
          BackgroundRemover_BeforeAfterSlider(BackgroundRemover)
            = Adjacent(BackgroundRemover.editHistory, BackgroundRemover.editHistoryIndex,
                       BackgroundRemover.originalImage)
    /\ (CreativeAssistant_mounted /\ CreativeAssistant_showsResults(CreativeAssistant)
        /\ (CreativeAssistant.currentHistoryIndex > 0
            \/ CreativeAssistant.sourceImage # NoImage)) =>
          CreativeAssistant_BeforeAfterSlider(CreativeAssistant)
            = Adjacent(CreativeAssistant.imageHistory,
                       CreativeAssistant.currentHistoryIndex,
                       DataUrl(CreativeAssistant.sourceImage))

\* ------------------------------------------------------------------
\* Aspect ratio and source image of the prompt form

\* C34 as stated: with a source image attached the aspect ratio is the
\* default.
C34_LockedToDefault ==
    TopicInput.sourceImage # NoImage =>
        TopicInput.controls.aspectRatio = CreativeAssistantInit.controls.aspectRatio

\* C34, amended: no step between two states with a source image attached
\* changes the aspect ratio, whose control is disabled in both; removing
\* the source image enables the control again and leaves the prompt, the
\* image history, the texts and the library as they were.
C34_AspectRatioLocked ==
    /\ [][(TopicInput.sourceImage # NoImage /\ TopicInput'.sourceImage # NoImage) =>
            /\ TopicInput'.controls.aspectRatio = TopicInput.controls.aspectRatio
            /\ ~ENABLED TopicInput_setAspectRatio]_vars
    /\ [][TopicInput_handleRemoveSourceImage =>
            /\ ~TopicInput_aspectRatioDisabled(TopicInput')
            /\ TopicInput'.controls = TopicInput.controls
            /\ CreativeAssistant' = CreativeAssistant
            /\ libraryCreations' = libraryCreations]_vars

\* A source image is attached while the aspect ratio is not the default, and
\* the controls have been randomized.
C34_Witness ==
    /\ TopicInput.sourceImage # NoImage
    /\ TopicInput.controls.aspectRatio # CreativeAssistantInit.controls.aspectRatio
    /\ TopicInput.controls.genre # TopicInputInit.controls.genre
    /\ ENABLED TopicInput_handleRemoveSourceImage
    /\ ENABLED TopicInput_randomizeControls

\* The reads of a chosen source image that have not settled.
SourceImageReads ==
    {read \in BagToSet(TopicInput.reads) : read.of = "sourceImage"}

\* C35 as stated: whenever no read of a source image is pending in the
\* prompt form, the source image is set exactly when its preview is, so an
\* image removed during its read is not attached when the read completes.
C35_SourceImageIffPreview ==
    (TopicInput_shows("prompt") /\ SourceImageReads = {}) =>
        (TopicInput.sourceImage # NoImage <=> TopicInput.sourceImagePreview # NoFile)

\* ------------------------------------------------------------------
\* Credential status

\* C36 as stated: the status becomes 'selected' only in a step of the
\* capability check that reported a credential, or in the step that resumes
\* handleSelectKey after a selection that chose one.
C36_SelectedIsSelected ==
    [][(CharacterAnimator.apiKeyStatus # "selected"
        /\ CharacterAnimator'.apiKeyStatus = "selected") =>
          \/ CharacterAnimator_hasKeyResolved
          \/ \E op \in Suspended :
                /\ op.h = "CharacterAnimator.handleSelectKey"
                /\ op.pc = "setApiKeyStatus"
                /\ op.selection = "chosen"
                /\ pending' = Resume(op)]_vars

\* ------------------------------------------------------------------
\* Loading

\* C37 as stated: in each workflow, whenever isLoading is set it is cleared
\* again, given that every backend call settles.
C37_LoadingIsLeft ==
    /\ FaceSwap.isLoading ~> ~FaceSwap.isLoading
    /\ BackgroundRemover.isLoading ~> ~BackgroundRemover.isLoading
    /\ CreativeAssistant.isLoading ~> ~CreativeAssistant.isLoading
    /\ CharacterAnimator.isLoading ~> ~CharacterAnimator.isLoading

\* ------------------------------------------------------------------
\* Stages of the assistant

\* C38 as stated: the stage changes only from 'prompt' to 'content', from
\* 'content' to 'iterate', or to 'prompt'; no failed call changes it; and in
\* stage 'prompt' the image history is empty, in stage 'iterate' it is not.
C38_StageOrder ==
    /\ [][CreativeAssistant'.stage # CreativeAssistant.stage =>
            \/ /\ CreativeAssistant.stage = "prompt"
               /\ CreativeAssistant'.stage = "content"
            \/ /\ CreativeAssistant.stage = "content"
               /\ CreativeAssistant'.stage = "iterate"
            \/ CreativeAssistant'.stage = "prompt"]_vars
    /\ [][(\/ CreativeAssistant_promptRejected
           \/ CreativeAssistant_imageRejected
           \/ CreativeAssistant_textFailed
           \/ CreativeAssistant_lyricsFailed
           \/ CreativeAssistant_iterateRejected) =>
            CreativeAssistant'.stage = CreativeAssistant.stage]_vars
    /\ [](CreativeAssistant.stage = "prompt" => CreativeAssistant.imageHistory = <<>>)
    /\ [](CreativeAssistant.stage = "iterate" => CreativeAssistant.imageHistory # <<>>)

====
